---- MODULE Spec2Model ----
(***************************************************************************)
(* A model of the record-linkage core of deqar-tools:                      *)
(*   - NewInstitution.__init__ of deqarclient.py (institution normaliser), *)
(*     with the DomainChecker index and the reference look-ups it uses;    *)
(*   - DuplicateSets and the fetch loop of findDuplicateReports.py.        *)
(*                                                                         *)
(* Python strings are modelled as sequences of one-character strings, so   *)
(* that strip(), the regular expressions and the '|' join are computed     *)
(* character by character.                                                 *)
(*                                                                         *)
(* The registry answers every GET (reference lists, institution snapshot,  *)
(* name search, report pages); what a HEAD request to the website returns, *)
(* whether the transliterate module is installed, and what each report     *)
(* page holds are chosen freely.  PAGESIZE keeps its value: a page of the  *)
(* model carries a few of the reports of the page the registry would send. *)
(***************************************************************************)
EXTENDS Integers, Sequences, FiniteSets, TLC

(***************************************************************************)
(* Python values that are not strings.  Each is a one-element sequence     *)
(* holding a multi-character token, so it differs from every string.       *)
(***************************************************************************)
PyFalse == <<"<False>">>
PyNone == <<"<None>">>
NotBuilt == <<"<not built>">>

(***************************************************************************)
(* Character classes and string helpers (str.strip, str.lower, str.upper,  *)
(* str.isdigit, int()).                                                    *)
(***************************************************************************)
Whitespace == {" ", "\t"}
Digits == {"0", "1", "2", "3", "4", "5", "6", "7", "8", "9"}
LOWER ==
  <<"a", "b", "c", "d", "e", "f", "g", "h", "i", "j", "k", "l", "m",
    "n", "o", "p", "q", "r", "s", "t", "u", "v", "w", "x", "y", "z">>
UPPER ==
  <<"A", "B", "C", "D", "E", "F", "G", "H", "I", "J", "K", "L", "M",
    "N", "O", "P", "Q", "R", "S", "T", "U", "V", "W", "X", "Y", "Z">>
Letters == {LOWER[i] : i \in 1..Len(LOWER)} \cup {UPPER[i] : i \in 1..Len(UPPER)}
AlNum == Letters \cup Digits

Range(s) == {s[i] : i \in 1..Len(s)}

lowerChar(c) ==
  IF \E i \in 1..Len(UPPER) : UPPER[i] = c
    THEN LOWER[CHOOSE i \in 1..Len(UPPER) : UPPER[i] = c]
    ELSE c

upperChar(c) ==
  IF \E i \in 1..Len(LOWER) : LOWER[i] = c
    THEN UPPER[CHOOSE i \in 1..Len(LOWER) : LOWER[i] = c]
    ELSE c

RECURSIVE lower(_)
lower(s) == IF s = <<>> THEN <<>> ELSE <<lowerChar(Head(s))>> \o lower(Tail(s))

RECURSIVE upper(_)
upper(s) == IF s = <<>> THEN <<>> ELSE <<upperChar(Head(s))>> \o upper(Tail(s))

RECURSIVE lstrip(_)
lstrip(s) == IF s # <<>> /\ Head(s) \in Whitespace THEN lstrip(Tail(s)) ELSE s

RECURSIVE rstrip(_)
rstrip(s) ==
  IF s # <<>> /\ s[Len(s)] \in Whitespace
    THEN rstrip(SubSeq(s, 1, Len(s) - 1))
    ELSE s

strip(s) == rstrip(lstrip(s))

isdigit(s) == s # <<>> /\ \A i \in 1..Len(s) : s[i] \in Digits

DigitVal(c) ==
  CASE c = "0" -> 0 [] c = "1" -> 1 [] c = "2" -> 2 [] c = "3" -> 3
    [] c = "4" -> 4 [] c = "5" -> 5 [] c = "6" -> 6 [] c = "7" -> 7
    [] c = "8" -> 8 [] c = "9" -> 9

RECURSIVE int(_)
int(s) ==
  IF s = <<>> THEN 0
  ELSE 10 * int(SubSeq(s, 1, Len(s) - 1)) + DigitVal(s[Len(s)])

\* the characters the model uses, in the order of their code points (the
\* order sorted() compares strings by)
CodePoints ==
  <<"\t", " ", "\"", "*", "+", ",", "-", ".", "/",
    "0", "1", "2", "3", "4", "5", "6", "7", "8", "9", ":", "<", ">", "?", "@">>
    \o UPPER \o <<"[", "\\", "]", "_">> \o LOWER \o <<"{", "|", "}">>

\* str() of a natural number
RECURSIVE IntStr(_)
IntStr(n) ==
  IF n < 10 THEN <<CodePoints[n + 10]>>
  ELSE IntStr(n \div 10) \o <<CodePoints[(n % 10) + 10]>>

\* length of the longest prefix of s whose characters are all in (or, with
\* inside = FALSE, all outside) the class cls
RECURSIVE RunLen(_, _, _)
RunLen(s, cls, inside) ==
  IF s # <<>> /\ ((Head(s) \in cls) = inside)
    THEN 1 + RunLen(Tail(s), cls, inside)
    ELSE 0

StartsWith(s, p) == Len(s) >= Len(p) /\ SubSeq(s, 1, Len(p)) = p
\* the slices s[n:] and s[:n], total as in Python
Drop(s, n) == IF n >= Len(s) THEN <<>> ELSE SubSeq(s, n + 1, Len(s))
Take(s, n) == IF n >= Len(s) THEN s ELSE SubSeq(s, 1, n)

\* dict helpers: a dict is a function whose domain is its key set
Put(d, k, v) == [x \in DOMAIN d \cup {k} |-> IF x = k THEN v ELSE d[x]]
Del(d, k) == [x \in DOMAIN d \ {k} |-> d[x]]
EmptyDict == [x \in {} |-> <<>>]

Truthy(v) == v # PyFalse /\ v # PyNone /\ v # <<>>

(***************************************************************************)
(* NewInstitution.__init__ : csv_coalesce                                  *)
(***************************************************************************)
RECURSIVE csv_coalesce(_, _)
csv_coalesce(d, columns) ==
  IF columns = <<>> THEN PyFalse
  ELSE IF Head(columns) \in DOMAIN d /\ d[Head(columns)] # <<>>
    THEN strip(d[Head(columns)])
    ELSE csv_coalesce(d, Tail(columns))

(***************************************************************************)
(* NewInstitution._url_normalise, static part.  The regular expression is, *)
(* anchored at both ends and ignoring case: optional white space, an       *)
(* optional scheme (one or more letters or digits, then "://"), a host of  *)
(* one or more non-slash characters, an optional path starting with "/".   *)
(* The regex engine tries the greedy choices first and backtracks: the     *)
(* scheme group is given up when no host follows it, and the leading white *)
(* space is given back to the host group when nothing else can be a host.  *)
(***************************************************************************)
SchemeSep == <<":", "/", "/">>

UrlMatch(website) ==
  LET sp == RunLen(website, Whitespace, TRUE)
      w == Drop(website, sp)
      k == RunLen(w, AlNum, TRUE)
      hasScheme == k >= 1 /\ StartsWith(Drop(w, k), SchemeSep)
      afterScheme == Drop(w, k + 3)
      hs == RunLen(afterScheme, {"/"}, FALSE)
      h == RunLen(w, {"/"}, FALSE)
  IN  IF hasScheme /\ hs >= 1
        THEN [ok |-> TRUE, protocol |-> Take(w, k + 3),
              domain |-> Take(afterScheme, hs), path |-> Drop(afterScheme, hs)]
      ELSE IF h >= 1
        THEN [ok |-> TRUE, protocol |-> <<>>,
              domain |-> Take(w, h), path |-> Drop(w, h)]
      ELSE IF sp >= 1
        THEN [ok |-> TRUE, protocol |-> <<>>,
              domain |-> <<website[sp]>>, path |-> w]
        ELSE [ok |-> FALSE, protocol |-> <<>>, domain |-> <<>>, path |-> <<>>]

HttpScheme == <<"h", "t", "t", "p", ":", "/", "/">>

StaticUrl(website) ==
  LET m == UrlMatch(website)
      protocol == lower(IF m.protocol = <<>> THEN HttpScheme ELSE m.protocol)
      domain == lower(m.domain)
      path == IF m.path = <<>> THEN <<"/">> ELSE m.path
  IN  protocol \o domain \o path

(***************************************************************************)
(* DomainChecker.core_domain.  EXTRACT is tldextract's TLDExtract: it      *)
(* takes the host out of the URL (scheme, path, query, fragment, userinfo  *)
(* and port removed), splits it into labels and looks for the longest      *)
(* public suffix; the label before the suffix is the domain.               *)
(***************************************************************************)
L_org == <<"o", "r", "g">>
L_com == <<"c", "o", "m">>
L_at == <<"a", "t">>
L_ac == <<"a", "c">>

\* the public suffixes known to the model (each a sequence of labels)
PublicSuffixes == {<<L_org>>, <<L_com>>, <<L_at>>, <<L_ac, L_at>>}

\* index of the first occurrence of character c in s, 0 if none
RECURSIVE Find(_, _)
Find(s, c) ==
  IF s = <<>> THEN 0
  ELSE IF Head(s) = c THEN 1
  ELSE LET r == Find(Tail(s), c) IN IF r = 0 THEN 0 ELSE r + 1

\* index of the last occurrence of character c in s, 0 if none
RECURSIVE RFind(_, _)
RFind(s, c) ==
  IF s = <<>> THEN 0
  ELSE IF s[Len(s)] = c THEN Len(s)
  ELSE RFind(Take(s, Len(s) - 1), c)

Before(s, c) == IF Find(s, c) = 0 THEN s ELSE Take(s, Find(s, c) - 1)
AfterLast(s, c) == Drop(s, RFind(s, c))

RECURSIVE Split(_, _)
Split(s, c) ==
  IF Find(s, c) = 0 THEN <<s>>
  ELSE <<Take(s, Find(s, c) - 1)>> \o Split(Drop(s, Find(s, c)), c)

RECURSIVE Join(_, _)
Join(parts, sep) ==
  IF parts = <<>> THEN <<>>
  ELSE IF Len(parts) = 1 THEN parts[1]
  ELSE parts[1] \o sep \o Join(Tail(parts), sep)

RECURSIVE rstripDots(_)
rstripDots(s) ==
  IF s # <<>> /\ s[Len(s)] = "." THEN rstripDots(Take(s, Len(s) - 1)) ELSE s

SchemeChars == AlNum \cup {"+", "-", "."}

SchemelessUrl(url) ==
  LET k == RunLen(url, SchemeChars, TRUE)
  IN  IF StartsWith(url, <<"/", "/">>) THEN Drop(url, 2)
      ELSE IF k >= 1 /\ StartsWith(Drop(url, k), SchemeSep) THEN Drop(url, k + 3)
      ELSE url

LenientNetloc(url) ==
  LET afterUserinfo ==
        AfterLast(Before(Before(Before(SchemelessUrl(url), "/"), "?"), "#"), "@")
  IN  rstripDots(strip(Before(afterUserinfo, ":")))

\* number of leading labels that are not part of the public suffix
SuffixIndex(labels) ==
  LET n == Len(labels)
      low == [i \in 1..n |-> lower(labels[i])]
      hits == {i \in 1..n : SubSeq(low, i, n) \in PublicSuffixes}
  IN  IF hits = {} THEN n
      ELSE (CHOOSE i \in hits : \A j \in hits : i <= j) - 1

EXTRACT(website) ==
  LET labels == Split(LenientNetloc(website), ".")
      si == SuffixIndex(labels)
  IN  [suffix |-> IF si = Len(labels) THEN <<>>
                  ELSE Join(SubSeq(labels, si + 1, Len(labels)), <<".">>),
       domain |-> IF si = 0 THEN <<>> ELSE labels[si]]

\* core_domain raises DataError when the match has no suffix
CoreDomainFails(website) == EXTRACT(website).suffix = <<>>

core_domain(website) ==
  LET match == EXTRACT(website)
  IN  lower(match.domain \o <<".">> \o match.suffix)

(***************************************************************************)
(* Reference data served by the registry, and the snapshot of known        *)
(* institutions the DomainChecker is built from.                           *)
(***************************************************************************)
S_AT == <<"A", "T">>
S_AUT == <<"A", "U", "T">>
S_BE == <<"B", "E">>
S_BEL == <<"B", "E", "L">>
S_faculty == <<"f", "a", "c", "u", "l", "t", "y">>
S_consortium == <<"c", "o", "n", "s", "o", "r", "t", "i", "u", "m">>

CountryList ==
  <<[id |-> 10, iso_3166_alpha2 |-> S_AT, iso_3166_alpha3 |-> S_AUT],
    [id |-> 17, iso_3166_alpha2 |-> S_BE, iso_3166_alpha3 |-> S_BEL]>>

HierarchicalTypeList ==
  <<[id |-> 1, type |-> S_consortium], [id |-> 2, type |-> S_faculty]>>

\* the QF-EHEA levels as the test registry lists them
QfEheaLevelList ==
  <<[id |-> 1, code |-> 0], [id |-> 2, code |-> 1],
    [id |-> 3, code |-> 2], [id |-> 4, code |-> 3]>>

\* level lists a registry may serve: the four codes, ids of its own choosing
LevelEnumerations ==
  {QfEheaLevelList,
   <<[id |-> 14, code |-> 3], [id |-> 11, code |-> 0],
     [id |-> 13, code |-> 2], [id |-> 12, code |-> 1]>>}

\* Countries.get: the first country whose id, alpha-2 or alpha-3 code is
\* `which` (a digit string is compared as a number); 0 stands for None
CountriesGet(which) ==
  LET hit(c) == IF isdigit(which) THEN int(which) = c.id
                ELSE which \in {c.iso_3166_alpha2, c.iso_3166_alpha3}
      hits == {i \in 1..Len(CountryList) : hit(CountryList[i])}
  IN  IF hits = {} THEN 0
      ELSE CountryList[CHOOSE i \in hits : \A j \in hits : i <= j].id

\* HierarchicalTypes.get, likewise; 0 stands for None
HierarchicalTypesGet(which) ==
  LET hit(t) == IF isdigit(which) THEN int(which) = t.id ELSE which = t.type
      hits == {i \in 1..Len(HierarchicalTypeList) : hit(HierarchicalTypeList[i])}
  IN  IF hits = {} THEN 0
      ELSE HierarchicalTypeList[CHOOSE i \in hits : \A j \in hits : i <= j].id

U_old == <<"h", "t", "t", "p", ":", "/", "/", "w", "w", "w", ".", "O", "l", "d", ".", "o", "r", "g", "/">>
U_new == <<"h", "t", "t", "p", "s", ":", "/", "/", "n", "e", "w", ".", "c", "o", "m", "/", "x">>
U_uni == <<"u", "n", "i", ".", "a", "c", ".", "a", "t">>
U_localhost == <<"l", "o", "c", "a", "l", "h", "o", "s", "t">>

\* results of GET /connectapi/v1/institutions: each a dict with a deqar_id
\* and, usually, a website_link
KnownHeis ==
  <<[deqar_id |-> 1, website_link |-> U_old],
    [deqar_id |-> 2, website_link |-> U_new],
    [deqar_id |-> 3, website_link |-> U_localhost],
    [deqar_id |-> 4],
    [deqar_id |-> 5, website_link |-> U_uni],
    [deqar_id |-> 6, website_link |-> <<"o", "l", "d", ".", "o", "r", "g">>]>>

(***************************************************************************)
(* DomainChecker.__init__ : the index from core domain to the list of the  *)
(* institutions (here their deqar_id) registered under it.                 *)
(***************************************************************************)
RECURSIVE IndexOf(_)
IndexOf(heis) ==
  IF heis = <<>> THEN EmptyDict
  ELSE LET rest == IndexOf(Take(heis, Len(heis) - 1))
           hei == heis[Len(heis)]
           url == IF "website_link" \in DOMAIN hei /\ ~CoreDomainFails(hei.website_link)
                    THEN core_domain(hei.website_link)
                    ELSE PyNone
       IN  IF Truthy(url)
             THEN Put(rest, url,
                      (IF url \in DOMAIN rest THEN rest[url] ELSE <<>>)
                        \o <<hei.deqar_id>>)
             ELSE rest

\* DomainChecker.query: the institutions logged as possible duplicates
QueryHits(index, website) ==
  IF core_domain(website) \in DOMAIN index
    THEN Range(index[core_domain(website)])
    ELSE {}

(***************************************************************************)
(* The input maps handed to NewInstitution.  A column whose value is       *)
(* Absent is not a key of the map.  Each family varies the columns of one  *)
(* step of the normalisation around a valid base row.                      *)
(***************************************************************************)
Absent == <<"<absent>">>

S_Uni == <<"U", "n", "i", " ">>
S_Eng == <<" ", "E", "n", "g">>
S_sp == <<" ">>
S_newcom == <<"n", "e", "w", ".", "c", "o", "m">>
S_Oldorg == <<" ", "O", "l", "d", ".", "o", "r", "g">>

BaseRow ==
  [name_official |-> S_Uni, name_english |-> Absent, name_version |-> Absent,
   website_link |-> S_newcom,
   country_id |-> Absent, country_iso |-> Absent, country |-> S_BEL,
   name_official_transliterated |-> Absent, acronym |-> Absent, city |-> Absent,
   founding_date |-> Absent, closing_date |-> Absent,
   identifier |-> Absent, identifier_resource |-> Absent, agency_id |-> Absent,
   parent_id |-> Absent, parent_deqar_id |-> Absent, parent_type |-> Absent,
   qf_ehea_levels |-> Absent]

Mk(row) == [k \in {c \in DOMAIN row : row[c] # Absent} |-> row[k]]

NameRows ==
  {[BaseRow EXCEPT !.name_official = o, !.name_english = e, !.name_version = v] :
     o \in {Absent, <<>>, S_sp, S_Uni},
     e \in {Absent, <<>>, S_sp, S_Eng, S_Uni, <<"U", "n", "i">>},
     v \in {Absent, S_Eng, S_Uni}}

WebsiteRows ==
  {[BaseRow EXCEPT !.website_link = w] :
     w \in {Absent, S_sp, S_newcom, S_Oldorg, U_old, U_localhost, U_uni,
            <<"/", "x">>, <<"H", "T", "T", "P", ":", "/", "/", "N", "e", "w", ".", "C", "O", "M">>}}

CountryRows ==
  {[BaseRow EXCEPT !.country_id = i, !.country_iso = a, !.country = c] :
     i \in {Absent, <<>>, S_sp, <<"1", "0">>, <<" ", "1", "7">>, <<"9", "9">>},
     a \in {Absent, S_sp, S_AT, <<"a", "t">>, <<"X", "K", "X">>},
     c \in {Absent, S_BEL}}

TranslitRows ==
  {[BaseRow EXCEPT !.name_official_transliterated = t, !.name_english = e,
                   !.acronym = a, !.city = a] :
     t \in {Absent, S_sp, <<"*", "r", "u">>, <<" ", "*", "r", "u">>, <<"U", "n", "i">>, <<"*", "x", "x">>},
     e \in {Absent, S_Eng},
     a \in {Absent, <<"A", "B", "C", " ">>}}

DateRows ==
  {[BaseRow EXCEPT !.founding_date = f, !.closing_date = c] :
     f \in {Absent, S_sp, <<"1", "9", "7", "0", " ">>, <<" ", "2", "0", "0", "0", "-", "0", "1", "-", "0", "1">>, <<"2", "0", "1", "9", "-", "1", "3", "-", "1", "2">>,
            <<"2", "0", "1", "9", "-", "0", "0", "-", "0", "0">>, <<"2", "0", "1", "9", "-", "0", "2", "-", "3", "1">>,
            <<"2", "0", "1", "9", "-", "1", "-", "5">>, <<"2", "0", "1", "9", "-", "1", "0">>,
            <<"2", "0", "1", "9", "-", "1", "1", "-", "3", "2">>, <<"1", "2", "/", "0", "1", "/", "1", "9", "7", "0">>},
     c \in {Absent, <<"1", "9", "7", "0", " ">>, <<"2", "0", "1", "9", "-", "0", "4", "-", "3", "1">>, <<"2", "0", "1", "9", "-", "1", "0">>}}

IdentifierRows ==
  {[BaseRow EXCEPT !.identifier = i, !.identifier_resource = r, !.agency_id = a] :
     i \in {Absent, <<>>, <<"4", "7", "1", "1", " ">>},
     r \in {Absent, <<>>, S_sp, <<"V", "A", "T", " ">>},
     a \in {Absent, <<>>, <<"1", "1">>}}

ParentRows ==
  {[BaseRow EXCEPT !.parent_id = i, !.parent_deqar_id = d, !.parent_type = t] :
     i \in {Absent, <<>>, <<"9", "8", "7">>, <<"1", "2", "x">>, <<"x", "1", "2">>},
     d \in {Absent, <<"D", "e", "q", "a", "r", "I", "N", "S", "T", "0", "9", "8", "7", " ", " ">>, <<"D", "E", "Q", "A", "R", "I", "N", "S", "T", "-", "4", "7", "1", "1">>, <<"d", "e", "q", "a", "r", "i", "n", "s", "t", "7", " ", "8">>},
     t \in {Absent, S_faculty, <<"2">>, <<"n", "o", "t", "a">>}}

LevelRows ==
  {[BaseRow EXCEPT !.qf_ehea_levels = l] :
     l \in {Absent, S_sp, <<"s", "h", "o", "r", "t", " ", "c", "y", "c", "l", "e", ",", " ", "6", ",", "7", ",", " ", "8", " ", " ">>, <<"t", "h", "i", "r", "d", ",", " ", "f", "i", "r", "s", "t">>,
            <<"s", "o", "m", "e", "t", "h", "i", "n", "g">>}}

\* rows with defects in several columns at once
DefectRows ==
  {[BaseRow EXCEPT !.name_official = o, !.website_link = w, !.country = c,
                   !.founding_date = f, !.identifier = i, !.parent_id = p] :
     o \in {Absent, S_Uni},
     w \in {S_newcom, <<"/", "x">>},
     c \in {Absent, S_BEL, <<"X", "K", "X">>},
     f \in {Absent, <<"1", "2", "/", "0", "1", "/", "1", "9", "7", "0">>},
     i \in {Absent, <<"4", "7", "1", "1", " ">>},
     p \in {Absent, <<"x", "1", "2">>}}

InputRows ==
  NameRows \cup WebsiteRows \cup CountryRows \cup TranslitRows \cup DateRows
    \cup IdentifierRows \cup ParentRows \cup LevelRows \cup DefectRows

\* the URLs a HEAD request may end at after following redirects
RedirectTargets == {U_new, <<"h", "t", "t", "p", ":", "/", "/", "l", "o", "c", "a", "l", "h", "o", "s", "t", "/">>}

VARIABLES
  pc,             \* the step NewInstitution.__init__ is at
  raw,            \* the input map as supplied by the caller
  data,           \* the input map as the code has changed it so far
  name_primary,
  website,
  country,        \* id of the resolved country
  institution,    \* self.institution
  error,          \* the exception __init__ ended with, "" if none
  warnings,       \* the DataWarnings raised so far
  domains,        \* DomainChecker.domains, NotBuilt before the first access
  domainQueries,  \* the core domains DomainChecker.query looked up
  domainHits,     \* the institutions query logged as possible duplicates
  nameQueries,    \* the names _query_name searched for
  headResult,     \* how requests.head ended
  translit_module, \* how "from transliterate import translit" ended
  apiCalls,       \* the requests sent so far, [method, path] each
  postResults     \* how each call of post() ended

instVars ==
  <<pc, raw, data, name_primary, website, country, institution, error, warnings,
    domains, domainQueries, domainHits, nameQueries, headResult, translit_module,
    apiCalls, postResults>>

\* findDuplicateReports.py, the script's state
VARIABLES
  dpc,            \* where the script is: "loop", "report", "done", "crashed"
  offset,
  total,
  store,          \* sets.store: agency -> (hash -> set of report ids)
  pending,        \* the results of the current page not yet passed to add()
  responses,      \* the pages the registry has served so far, in order
  added,          \* the reports add() has returned for
  interrupted,    \* a KeyboardInterrupt ended the loop
  reported,       \* the duplicate sets listed by the final report
  n_sets,
  n_dups

dupVars ==
  <<dpc, offset, total, store, pending, responses, added, interrupted, reported,
    n_sets, n_dups>>

\* QfEheaLevels.levels, and a level set built by create_qf_ehea_level_set
VARIABLES
  qf_levels,      \* QfEheaLevels.levels, the list the registry served
  lpc,            \* "idle", "input", "built", "raised"
  litems,         \* the entries the caller wrote, before they were joined
  lstring,        \* the string passed to QfEheaLevelSet
  lstrict,
  lset,           \* the list QfEheaLevelSet is, empty before construction
  ltext,          \* str() of the set, NotBuilt before it is taken
  lprev           \* the previous input and its set, if any

levelVars == <<qf_levels, lpc, litems, lstring, lstrict, lset, ltext, lprev>>

\* DomainChecker.core_domain called on its own
VARIABLES
  cpc,            \* "idle", "input", "done", "failed", "again", "again failed"
  curl,           \* the website passed to core_domain
  cdomain,        \* what core_domain returned, NotBuilt before
  cagain          \* what core_domain returned for cdomain, NotBuilt before

coreVars == <<cpc, curl, cdomain, cagain>>

\* NestedDictReader reading one row
VARIABLES
  npc,            \* "idle", "input", "built", "raised"
  nheaders,       \* the header line, split into columns
  nvalues,        \* the cells of the row
  nrecord,        \* the record built: the leaf [path, value] of each column
  nerror          \* the exception next() ended with, "" if none

csvVars == <<npc, nheaders, nvalues, nrecord, nerror>>

\* a run of calls on one EqarApi: DomainChecker.query, create_institution, post
VARIABLES
  registry,       \* the institutions the server holds
  created,        \* the websites of the records constructed and not yet posted
  ilog            \* the calls made so far

indexVars == <<registry, created, ilog>>

\* addIdentifiers.py: one run of AddIdentifiers.run
VARIABLES
  apc,            \* "idle", "loop", "step", "done", "crashed"
  acommit,        \* the commit argument of run()
  additionalIds,  \* self.AdditionalIds: key -> the (resource, identifier) items
  aoffset,
  acount,
  apage,          \* heis['count'] of the page being processed
  apending,       \* the results of the page not yet processed
  heiDb,          \* the identifiers the server holds for each institution
  puts,           \* the PUT requests sent so far
  astep           \* the last institution processed: what was loaded and what it became

idsVars == <<apc, acommit, additionalIds, aoffset, acount, apage, apending, heiDb, puts, astep>>

\* deqar-cli.py: one call of paginate_heis
VARIABLES
  ppc,            \* "idle", "prompt", "returned", "crashed"
  ptotal,         \* the number of institutions the query matches on the server
  poffset,
  last_offset,
  presult,        \* result: <<>> before the first request, else <<the response>>
  pchoice,        \* the last number accepted at the prompt, <<>> if none
  pshown          \* the id passed to show_hei for it, <<>> if none

pagerVars == <<ppc, ptotal, poffset, last_offset, presult, pchoice, pshown>>

vars == <<instVars, dupVars, levelVars, coreVars, csvVars, indexVars, idsVars, pagerVars>>

\* what the steps of one component leave alone
exceptInst == <<dupVars, levelVars, coreVars, csvVars, indexVars, idsVars, pagerVars>>
exceptDup == <<instVars, levelVars, coreVars, csvVars, indexVars, idsVars, pagerVars>>
exceptLevels == <<instVars, dupVars, coreVars, csvVars, indexVars, idsVars, pagerVars>>
exceptCore == <<instVars, dupVars, levelVars, csvVars, indexVars, idsVars, pagerVars>>
exceptCsv == <<instVars, dupVars, levelVars, coreVars, indexVars, idsVars, pagerVars>>
\* the calls on the index work on the variables of the normaliser too
exceptIndex == <<dupVars, levelVars, coreVars, csvVars, idsVars, pagerVars>>
exceptIds == <<instVars, dupVars, levelVars, coreVars, csvVars, indexVars, pagerVars>>
exceptPager == <<instVars, dupVars, levelVars, coreVars, csvVars, indexVars, idsVars>>

\* no run of calls on the index is going on
IndexIdle ==
  /\ registry = <<>>
  /\ created = <<>>
  /\ ilog = <<>>

\* addIdentifiers.py is not running
IdsIdle ==
  /\ apc = "idle"
  /\ acommit = FALSE
  /\ additionalIds = EmptyDict
  /\ aoffset = 0
  /\ acount = 0
  /\ apage = 0
  /\ apending = <<>>
  /\ heiDb = <<>>
  /\ puts = <<>>
  /\ astep = <<>>

\* the search CLI is not running
PagerIdle ==
  /\ ppc = "idle"
  /\ ptotal = 0
  /\ poffset = 0
  /\ last_offset = 0
  /\ presult = <<>>
  /\ pchoice = <<>>
  /\ pshown = <<>>

\* core_domain is not being called on its own
CoreIdle ==
  /\ cpc = "idle"
  /\ curl = <<>>
  /\ cdomain = NotBuilt
  /\ cagain = NotBuilt

\* no row is being read
CsvIdle ==
  /\ npc = "idle"
  /\ nheaders = <<>>
  /\ nvalues = <<>>
  /\ nrecord = <<>>
  /\ nerror = ""

\* no level set is being built; the registry lists the levels as in the tests
LevelSetIdle ==
  /\ qf_levels = QfEheaLevelList
  /\ lpc = "idle"
  /\ litems = <<>>
  /\ lstring = <<>>
  /\ lstrict = FALSE
  /\ lset = <<>>
  /\ ltext = NotBuilt
  /\ lprev = <<>>

\* lines 96-103: the script's variables before the loop
ScriptStart ==
  /\ dpc = "loop"
  /\ offset = 0
  /\ total = 1
  /\ store = EmptyDict
  /\ pending = <<>>
  /\ responses = <<>>
  /\ added = {}
  /\ interrupted = FALSE
  /\ reported = {}
  /\ n_sets = 0
  /\ n_dups = 0

InitInst ==
  /\ ScriptStart
  /\ PagerIdle
  /\ IdsIdle
  /\ IndexIdle
  /\ LevelSetIdle
  /\ CoreIdle
  /\ CsvIdle
  /\ pc = "required"
  /\ raw \in {Mk(r) : r \in InputRows}
  /\ data = raw
  /\ name_primary = PyNone
  /\ website = PyNone
  /\ country = 0
  /\ institution = EmptyDict
  /\ error = ""
  /\ warnings = <<>>
  /\ domains = NotBuilt
  /\ domainQueries = <<>>
  /\ domainHits = {}
  /\ nameQueries = <<>>
  /\ headResult = ""
  /\ translit_module = ""
  /\ apiCalls = <<>>
  /\ postResults = <<>>

\* raise: __init__ ends with the exception, nothing else changes
Raise(e) == pc' = "failed" /\ error' = e

\* the request EqarApi._request (lines 110-115) or requests.head (474)
\* sends, added to the log of requests
Request(log, method, path) == Append(log, [method |-> method, path |-> path])

\* a get that sends its request as a write
ApiGetAsPost(log, path) == Request(log, "POST", path)

\* EqarApi.get (127-129)
ApiGet(log, path) == Request(log, "GET", path)

\* EqarApi.post (131-133)
ApiPost(log, path) == Request(log, "POST", path)

\* the reference lists (198-203, 215-220, 232-237) are fetched on their
\* first use and kept
Fetch(log, path) ==
  IF \E i \in DOMAIN log : log[i].path = path THEN log ELSE ApiGet(log, path)

\* _query_name (490-494): one search per name
RECURSIVE NameSearches(_, _)
NameSearches(log, n) ==
  IF n = 0 THEN log
  ELSE NameSearches(ApiGet(log, "/connectapi/v1/institutions/"), n - 1)

\* a first step that lets every input pass
StepRequiredUnchecked ==
  /\ pc = "required"
  /\ pc' = "primary"
  /\ UNCHANGED <<raw, data, name_primary, website, country, institution, error, warnings,
                 domains, domainQueries, domainHits, nameQueries, headResult, translit_module>>
  /\ UNCHANGED <<apiCalls, postResults>>

\* lines 323-325: name and website present
StepRequired ==
  /\ pc = "required"
  /\ IF ~(Truthy(csv_coalesce(data, <<"name_official">>))
          /\ Truthy(csv_coalesce(data, <<"website_link">>)))
       THEN Raise("DataError: must have an official name and a website")
       ELSE pc' = "primary" /\ UNCHANGED error
  /\ UNCHANGED <<raw, data, name_primary, website, country, institution, warnings,
                 domains, domainQueries, domainHits, nameQueries, headResult, translit_module>>
  /\ UNCHANGED <<apiCalls, postResults>>

\* line 328: determine primary name
StepPrimary ==
  /\ pc = "primary"
  /\ name_primary' = csv_coalesce(data, <<"name_english", "name_official">>)
  /\ pc' = "website"
  /\ UNCHANGED <<raw, data, website, country, institution, error, warnings,
                 domains, domainQueries, domainHits, nameQueries, headResult, translit_module>>
  /\ UNCHANGED <<apiCalls, postResults>>

\* lines 339-340 and _url_normalise (463-487): the HEAD request ends with a
\* ConnectionError, with another exception of requests (a read timeout, too
\* many redirects: not caught), with a successful status at some final URL,
\* or with an unsuccessful status
StepWebsite ==
  /\ pc = "website"
  /\ LET w == csv_coalesce(data, <<"website_link">>)
         url == StaticUrl(w)
     IN  IF ~UrlMatch(w).ok
           THEN /\ Raise("DataError: not a valid http/https URL")
                /\ UNCHANGED <<website, data, headResult>>
           ELSE \E r \in {"ConnectionError", "RequestException", "ok", "bad status"} :
                  /\ headResult' = r
                  /\ IF r = "RequestException"
                       THEN Raise("RequestException") /\ UNCHANGED <<website, data>>
                       ELSE /\ \E final \in (IF r = "ok" THEN {url} \cup RedirectTargets
                                             ELSE {url}) :
                                 /\ website' = final
                                 /\ data' = Put(data, "website_link", final)
                            /\ pc' = "domain"
                            /\ UNCHANGED error
  /\ UNCHANGED <<raw, name_primary, country, institution, warnings,
                 domains, domainQueries, domainHits, nameQueries, translit_module>>
  /\ apiCalls' = IF UrlMatch(csv_coalesce(data, <<"website_link">>)).ok
                    THEN Request(apiCalls, "HEAD", "website")
                    ELSE apiCalls
  /\ UNCHANGED postResults

\* lines 343-345 with DomainChecker (249-301): the index is built on the
\* first access; both queries read data['website_link'], which line 340 has
\* already replaced by the normalised URL
StepDomain ==
  /\ pc = "domain"
  /\ LET index == IF domains = NotBuilt THEN IndexOf(KnownHeis) ELSE domains
         first == csv_coalesce(data, <<"website_link">>)
     IN  /\ domains' = index
         /\ IF CoreDomainFails(first)
              THEN /\ Raise("DataError: not a valid http/https URL")
                   /\ UNCHANGED <<domainQueries, domainHits>>
              ELSE IF CoreDomainFails(website)
                THEN /\ Raise("DataError: not a valid http/https URL")
                     /\ domainQueries' = Append(domainQueries, core_domain(first))
                     /\ domainHits' = domainHits \cup QueryHits(index, first)
              ELSE IF core_domain(website) # core_domain(first)
                THEN /\ domainQueries' =
                          domainQueries \o <<core_domain(first), core_domain(website)>>
                     /\ domainHits' = domainHits \cup QueryHits(index, first)
                                        \cup QueryHits(index, website)
                     /\ pc' = "country"
                     /\ UNCHANGED error
                ELSE /\ domainQueries' = Append(domainQueries, core_domain(first))
                     /\ domainHits' = domainHits \cup QueryHits(index, first)
                     /\ pc' = "country"
                     /\ UNCHANGED error
  /\ UNCHANGED <<raw, data, name_primary, website, country, institution, warnings,
                 nameQueries, headResult, translit_module>>
  /\ apiCalls' = IF domains = NotBuilt
                    THEN ApiGet(apiCalls, "/connectapi/v1/institutions")
                    ELSE apiCalls
  /\ UNCHANGED postResults

\* lines 347-356: resolve country ISO to ID
StepCountry ==
  /\ pc = "country"
  /\ LET which == csv_coalesce(data, <<"country_id", "country_iso", "country">>)
     IN  IF Truthy(which)
           THEN IF CountriesGet(which) = 0
                  THEN Raise("DataError: Unknown country") /\ UNCHANGED country
                  ELSE /\ country' = CountriesGet(which)
                       /\ pc' = "record"
                       /\ UNCHANGED error
           ELSE Raise("DataError: Country needs to be specified") /\ UNCHANGED country
  /\ UNCHANGED <<raw, data, name_primary, website, institution, warnings,
                 domains, domainQueries, domainHits, nameQueries, headResult, translit_module>>
  /\ apiCalls' =
       IF Truthy(csv_coalesce(data, <<"country_id", "country_iso", "country">>))
         THEN Fetch(apiCalls, "/adminapi/v1/select/country/")
         ELSE apiCalls
  /\ UNCHANGED postResults

(***************************************************************************)
(* The regular expressions of the optional attributes.                     *)
(***************************************************************************)
\* founding_date / closing_date (lines 404, 413), anchored at both ends:
\* white space, four digits, optionally "-" month "-" day, white space;
\* month is 10, 11, 12 or a digit with an optional leading 0; day is 31, 30
\* or a digit with an optional leading 0, 1 or 2
MonthMatches(m) ==
  \/ Len(m) = 2 /\ m[1] = "1" /\ m[2] \in {"0", "1", "2"}
  \/ Len(m) = 2 /\ m[1] = "0" /\ m[2] \in Digits
  \/ Len(m) = 1 /\ m[1] \in Digits

DayMatches(d) ==
  \/ d = <<"3", "1">>
  \/ d = <<"3", "0">>
  \/ Len(d) = 2 /\ d[1] \in {"0", "1", "2"} /\ d[2] \in Digits
  \/ Len(d) = 1 /\ d[1] \in Digits

\* [ok, year (group 1), rest (group 2, PyNone when the group did not match)]
DateMatch(s) ==
  LET t == strip(s)
      rest == Drop(t, 4)
      md == Drop(rest, 1)
      full == /\ rest # <<>>
              /\ rest[1] = "-"
              /\ Find(md, "-") # 0
              /\ MonthMatches(Take(md, Find(md, "-") - 1))
              /\ DayMatches(Drop(md, Find(md, "-")))
  IN  [ok |-> Len(t) >= 4 /\ isdigit(Take(t, 4)) /\ (rest = <<>> \/ full),
       year |-> Take(t, 4),
       rest |-> IF rest = <<>> THEN PyNone ELSE rest]

\* parent_id / parent_deqar_id (line 444), matched at the start of the
\* upper-cased value only: white space, optionally DEQARINST, one or more
\* digits, white space.  Nothing anchors the end of the match.
S_DEQARINST == <<"D", "E", "Q", "A", "R", "I", "N", "S", "T">>

\* [ok, digits (group 2)]
ParentMatch(s) ==
  LET u == lstrip(upper(s))
      afterPrefix == Drop(u, Len(S_DEQARINST))
      k == RunLen(u, Digits, TRUE)
  IN  IF StartsWith(u, S_DEQARINST) /\ RunLen(afterPrefix, Digits, TRUE) >= 1
        THEN [ok |-> TRUE, digits |-> Take(afterPrefix, RunLen(afterPrefix, Digits, TRUE))]
        ELSE [ok |-> k >= 1, digits |-> Take(u, k)]

(***************************************************************************)
(* QfEheaLevelSet (lines 149-189) and QfEheaLevels.get (214-229)           *)
(***************************************************************************)
\* the first level of self.levels with the given code
QfEheaLevelsGet(which) ==
  qf_levels[CHOOSE i \in 1..Len(qf_levels) :
              /\ qf_levels[i].code = which
              /\ \A j \in 1..(i - 1) : qf_levels[j].code # which]

LevelKeywords ==
  <<[key |-> <<"s", "h", "o", "r", "t">>, code |-> 0],
    [key |-> <<"f", "i", "r", "s", "t">>, code |-> 1],
    [key |-> <<"s", "e", "c", "o", "n", "d">>, code |-> 2],
    [key |-> <<"s", "e", "c", "o", "u", "n", "d">>, code |-> 2],
    [key |-> <<"t", "h", "i", "r", "d">>, code |-> 3]>>

S_cycle == <<"c", "y", "c", "l", "e">>
LevelDigits == {"0", "1", "2", "3", "5", "6", "7", "8"}
LevelStripChars == {" ", ",", ".", "\t"}

RECURSIVE lstripSet(_, _)
lstripSet(s, cs) == IF s # <<>> /\ Head(s) \in cs THEN lstripSet(Tail(s), cs) ELSE s

RECURSIVE rstripSet(_, _)
rstripSet(s, cs) ==
  IF s # <<>> /\ s[Len(s)] \in cs THEN rstripSet(Take(s, Len(s) - 1), cs) ELSE s

\* length of the separator the split pattern matches at the start of s (0:
\* none): white space, one character that is no letter or digit, white space
SepLenAt(s) ==
  LET ws == RunLen(s, Whitespace, TRUE)
      rest == Drop(s, ws)
  IN  IF rest # <<>> /\ rest[1] \notin AlNum
        THEN ws + 1 + RunLen(Drop(rest, 1), Whitespace, TRUE)
        ELSE ws

RECURSIVE FirstSep(_, _)
FirstSep(s, i) ==
  IF i > Len(s) THEN 0
  ELSE IF SepLenAt(Drop(s, i - 1)) > 0 THEN i
  ELSE FirstSep(s, i + 1)

RECURSIVE ReSplit(_)
ReSplit(s) ==
  LET i == FirstSep(s, 1)
  IN  IF i = 0 THEN <<s>>
      ELSE <<Take(s, i - 1)>> \o ReSplit(Drop(s, i - 1 + SepLenAt(Drop(s, i - 1))))

\* the token pattern with the EQF digits shifted down by four, not five
TokenMatchShiftingByFour(l) ==
  LET keys == {i \in 1..Len(LevelKeywords) : StartsWith(l, LevelKeywords[i].key)}
  IN  IF l # <<>> /\ l[1] \in LevelDigits
        THEN [kind |-> "level",
              code |-> IF DigitVal(l[1]) > 4 THEN DigitVal(l[1]) - 4 ELSE DigitVal(l[1])]
      ELSE IF StartsWith(l, S_cycle) THEN [kind |-> "cycle", code |-> 0]
      ELSE IF keys # {}
        THEN [kind |-> "level", code |-> LevelKeywords[CHOOSE i \in keys : TRUE].code]
      ELSE [kind |-> "none", code |-> 0]

\* what the token pattern matches at the start of l: a level (with its
\* code 0..3), the word "cycle", or nothing
TokenMatch(l) ==
  LET keys == {i \in 1..Len(LevelKeywords) : StartsWith(l, LevelKeywords[i].key)}
  IN  IF l # <<>> /\ l[1] \in LevelDigits
        THEN [kind |-> "level",
              code |-> IF DigitVal(l[1]) > 4 THEN DigitVal(l[1]) - 5 ELSE DigitVal(l[1])]
      ELSE IF StartsWith(l, S_cycle) THEN [kind |-> "cycle", code |-> 0]
      ELSE IF keys # {}
        THEN [kind |-> "level", code |-> LevelKeywords[CHOOSE i \in keys : TRUE].code]
      ELSE [kind |-> "none", code |-> 0]

\* the codes a set of small integers is iterated in: CPython walks the hash
\* table, which holds 0..3 in increasing order
RECURSIVE CodesInOrder(_, _)
CodesInOrder(codes, from) ==
  IF from > 3 THEN <<>>
  ELSE (IF from \in codes THEN <<from>> ELSE <<>>) \o CodesInOrder(codes, from + 1)

RECURSIVE LevelsOf(_)
LevelsOf(codes) ==
  IF codes = <<>> THEN <<>>
  ELSE <<QfEheaLevelsGet(Head(codes))>> \o LevelsOf(Tail(codes))

\* a set that appends the level of every level token, for comparison with
\* QfEheaLevelSet
QfEheaLevelSetKeepingRepeats(string, strict) ==
  LET tokens == ReSplit(rstripSet(lstripSet(string, LevelStripChars), LevelStripChars))
      m == [i \in 1..Len(tokens) |-> TokenMatch(tokens[i])]
      codes == [i \in 1..Len(tokens) |-> IF m[i].kind = "level" THEN <<m[i].code>> ELSE <<>>]
  IN  [ok |-> ~(strict /\ \E i \in 1..Len(tokens) : m[i].kind = "none"),
       levels |-> LevelsOf(Join(codes, <<>>))]

\* [ok, levels]: ok is FALSE when strict parsing raises DataError
QfEheaLevelSet(string, strict) ==
  LET tokens == ReSplit(rstripSet(lstripSet(string, LevelStripChars), LevelStripChars))
      m == [i \in 1..Len(tokens) |-> TokenMatch(tokens[i])]
      recognised == {m[i].code : i \in {j \in 1..Len(tokens) : m[j].kind = "level"}}
  IN  [ok |-> ~(strict /\ \E i \in 1..Len(tokens) : m[i].kind = "none"),
       levels |-> LevelsOf(CodesInOrder(recognised, 0))]

(***************************************************************************)
(* NewInstitution.__init__, continued: the record and the optional         *)
(* attributes.                                                             *)
(***************************************************************************)
Names0 == institution.names[1]
SetNames0(inst, n) == [inst EXCEPT !.names = <<n>>]

\* lines 358-378: basic record, sanity check of the names, name search
StepRecord ==
  /\ pc = "record"
  /\ LET dupEnglish == /\ "name_english" \in DOMAIN data
                       /\ data["name_english"] = data["name_official"]
         d1 == IF dupEnglish THEN Del(data, "name_english") ELSE data
         dupVersion == /\ "name_version" \in DOMAIN d1
                       /\ d1["name_version"] = d1["name_official"]
         d2 == IF dupVersion THEN Del(d1, "name_version") ELSE d1
         dupBoth == /\ "name_version" \in DOMAIN d2
                    /\ "name_english" \in DOMAIN d2
                    /\ d2["name_version"] # <<>>
                    /\ d2["name_version"] = d2["name_english"]
         d3 == IF dupBoth THEN Del(d2, "name_version") ELSE d2
     IN  /\ institution' =
              [name_primary |-> name_primary,
               website_link |-> website,
               names |-> <<[name_official |-> csv_coalesce(data, <<"name_official">>)]>>,
               countries |-> <<[country |-> country]>>,
               flags |-> <<>>]
         /\ data' = d3
         /\ warnings' = warnings
              \o (IF dupEnglish THEN <<"DUPLICATE NAME: English = official">> ELSE <<>>)
              \o (IF dupVersion THEN <<"DUPLICATE NAME: version = official">> ELSE <<>>)
              \o (IF dupBoth THEN <<"DUPLICATE NAME: version = English">> ELSE <<>>)
         /\ nameQueries' = Append(nameQueries, csv_coalesce(d3, <<"name_official">>))
  /\ pc' = "names"
  /\ UNCHANGED <<raw, name_primary, website, country, error,
                 domains, domainQueries, domainHits, headResult, translit_module>>
  /\ apiCalls' = NameSearches(apiCalls, 1)
  /\ UNCHANGED postResults

\* the language packs of the transliterate module
LanguagePacks == {<<"r", "u">>}

\* translit(name, lang, reversed=True): some string determined by both
Translit(name, lang) == <<"<translit>">> \o lang \o <<":">> \o name

\* lines 380-402: English name, transliteration, name version, acronym, city
StepNames ==
  /\ pc = "names"
  /\ LET e == csv_coalesce(data, <<"name_english">>)
         n1 == IF Truthy(e) THEN Put(Names0, "name_english", e) ELSE Names0
         q1 == IF Truthy(e) THEN Append(nameQueries, e) ELSE nameQueries
         t == csv_coalesce(data, <<"name_official_transliterated">>)
         lang == Take(Drop(data["name_official_transliterated"], 1), 2)
         v == csv_coalesce(data, <<"name_version">>)
         a == csv_coalesce(data, <<"acronym">>)
         c == csv_coalesce(data, <<"city">>)
         Finish(n2, w2) ==
           LET n3 == IF Truthy(v) THEN Put(n2, "alternative_names", <<[name |-> v]>>)
                     ELSE n2
               n4 == IF Truthy(a) THEN Put(n3, "acronym", a) ELSE n3
               c1 == IF Truthy(c) THEN Put(institution.countries[1], "city", c)
                     ELSE institution.countries[1]
           IN  /\ institution' = [institution EXCEPT !.names = <<n4>>,
                                                      !.countries = <<c1>>]
               /\ nameQueries' = IF Truthy(v) THEN Append(q1, v) ELSE q1
               /\ warnings' = w2
               /\ pc' = "dates"
               /\ UNCHANGED error
         Abort(e2, w2) ==
           /\ Raise(e2)
           /\ institution' = SetNames0(institution, n1)
           /\ nameQueries' = q1
           /\ warnings' = w2
     IN  IF ~Truthy(t)
           THEN Finish(n1, warnings) /\ UNCHANGED translit_module
         ELSE IF data["name_official_transliterated"][1] # "*"
           THEN Finish(Put(n1, "name_official_transliterated", t), warnings)
                /\ UNCHANGED translit_module
         ELSE \E m \in {"installed", "missing"} :
                /\ translit_module' = m
                /\ IF m = "installed"
                     THEN IF lang \in LanguagePacks
                            THEN Finish(Put(n1, "name_official_transliterated",
                                            Translit(csv_coalesce(data, <<"name_official">>), lang)),
                                        warnings)
                            ELSE Abort("LanguagePackNotFound", warnings)
                     \* except ImportError: warn, then del of a key that the
                     \* failed assignment never set
                     ELSE LET w2 == Append(warnings, "transliterate module not available")
                          IN  IF "name_official_transliterated" \in DOMAIN n1
                                THEN Finish(Del(n1, "name_official_transliterated"), w2)
                                ELSE Abort("KeyError", w2)
  /\ UNCHANGED <<raw, data, name_primary, website, country,
                 domains, domainQueries, domainHits, headResult>>
  /\ apiCalls' = NameSearches(apiCalls, Len(nameQueries') - Len(nameQueries))
  /\ UNCHANGED postResults

\* the value stored for a date column whose pattern matched
\* a year alone is stored as it is
DateValueKeepingYearAlone(m, default) == IF m.rest = PyNone THEN m.year ELSE m.year \o m.rest

DateValue(m, default) == IF m.rest = PyNone THEN m.year \o default ELSE m.year \o m.rest

\* lines 403-420: founding_date, closing_date
StepDates ==
  /\ pc = "dates"
  /\ LET hasF == Truthy(csv_coalesce(data, <<"founding_date">>))
         hasC == Truthy(csv_coalesce(data, <<"closing_date">>))
         mf == DateMatch(data["founding_date"])
         mc == DateMatch(data["closing_date"])
         i1 == IF hasF THEN Put(institution, "founding_date",
                                DateValue(mf, <<"-", "0", "1", "-", "0", "1">>))
               ELSE institution
         i2 == IF hasC THEN Put(i1, "closing_date",
                                DateValue(mc, <<"-", "1", "2", "-", "3", "1">>))
               ELSE i1
     IN  IF hasF /\ ~mf.ok
           THEN Raise("DataError: Malformed founding_date") /\ UNCHANGED institution
         ELSE IF hasC /\ ~mc.ok
           THEN Raise("DataError: Malformed closing_date") /\ institution' = i1
         ELSE institution' = i2 /\ pc' = "identifier" /\ UNCHANGED error
  /\ UNCHANGED <<raw, data, name_primary, website, country, warnings,
                 domains, domainQueries, domainHits, nameQueries, headResult, translit_module>>
  /\ UNCHANGED <<apiCalls, postResults>>

S_local_identifier ==
  <<"l", "o", "c", "a", "l", " ", "i", "d", "e", "n", "t", "i", "f", "i", "e", "r">>

\* lines 422-440: process identifier
StepIdentifier ==
  /\ pc = "identifier"
  /\ LET id == csv_coalesce(data, <<"identifier">>)
         hasResource == "identifier_resource" \in DOMAIN data
         hasAgency == "agency_id" \in DOMAIN data
         e0 == [identifier |-> id]
         e1 == Put(e0, "resource",
                   IF hasResource THEN csv_coalesce(data, <<"identifier_resource">>)
                   ELSE S_local_identifier)
         e2 == IF hasAgency THEN Put(e1, "agency", csv_coalesce(data, <<"agency_id">>))
               ELSE e1
     IN  IF ~Truthy(id)
           THEN pc' = "parent" /\ UNCHANGED <<institution, error, warnings>>
         ELSE IF ~hasResource /\ ~hasAgency
           THEN /\ Raise("DataError: Identifier needs to have an agency ID or a resource")
                /\ institution' = Put(institution, "identifiers", <<e0>>)
                /\ UNCHANGED warnings
         ELSE /\ institution' = Put(institution, "identifiers", <<e2>>)
              /\ warnings' = IF hasResource /\ hasAgency
                               THEN Append(warnings, "identifier has both agency_id and resource")
                               ELSE warnings
              /\ pc' = "parent"
              /\ UNCHANGED error
  /\ UNCHANGED <<raw, data, name_primary, website, country,
                 domains, domainQueries, domainHits, nameQueries, headResult, translit_module>>
  /\ UNCHANGED <<apiCalls, postResults>>

\* lines 442-455: process parent institution
StepParent ==
  /\ pc = "parent"
  /\ LET p == csv_coalesce(data, <<"parent_id", "parent_deqar_id">>)
         match == ParentMatch(p)
         type == csv_coalesce(data, <<"parent_type">>)
         h0 == [institution |-> int(match.digits)]
     IN  IF ~Truthy(p)
           THEN pc' = "levels" /\ UNCHANGED <<institution, error>>
         ELSE IF ~match.ok
           THEN Raise("DataError: Malformed parent_id") /\ UNCHANGED institution
         ELSE IF ~Truthy(type)
           THEN /\ institution' = Put(institution, "hierarchical_parent", <<h0>>)
                /\ pc' = "levels"
                /\ UNCHANGED error
         ELSE IF HierarchicalTypesGet(type) = 0
           THEN /\ Raise("DataError: Unknown parent_type")
                /\ institution' = Put(institution, "hierarchical_parent", <<h0>>)
         ELSE /\ institution' =
                   Put(institution, "hierarchical_parent",
                       <<Put(h0, "relationship_type", HierarchicalTypesGet(type))>>)
              /\ pc' = "levels"
              /\ UNCHANGED error
  /\ UNCHANGED <<raw, data, name_primary, website, country, warnings,
                 domains, domainQueries, domainHits, nameQueries, headResult, translit_module>>
  /\ apiCalls' =
       IF /\ Truthy(csv_coalesce(data, <<"parent_id", "parent_deqar_id">>))
          /\ ParentMatch(csv_coalesce(data, <<"parent_id", "parent_deqar_id">>)).ok
          /\ Truthy(csv_coalesce(data, <<"parent_type">>))
         THEN Fetch(apiCalls,
                    "/adminapi/v1/select/institution_hierarchical_relationship_types/")
         ELSE apiCalls
  /\ UNCHANGED postResults

\* lines 457-461: process QF levels
StepLevels ==
  /\ pc = "levels"
  /\ institution' =
       Put(institution, "qf_ehea_levels",
           IF Truthy(csv_coalesce(data, <<"qf_ehea_levels">>))
             THEN QfEheaLevelSet(data["qf_ehea_levels"], FALSE).levels
             ELSE <<>>)
  /\ pc' = "done"
  /\ UNCHANGED <<raw, data, name_primary, website, country, error, warnings,
                 domains, domainQueries, domainHits, nameQueries, headResult, translit_module>>
  /\ apiCalls' =
       IF /\ Truthy(csv_coalesce(data, <<"qf_ehea_levels">>))
          /\ QfEheaLevelSet(data["qf_ehea_levels"], FALSE).levels # <<>>
         THEN Fetch(apiCalls, "/adminapi/v1/select/qf_ehea_level/")
         ELSE apiCalls
  /\ UNCHANGED postResults

\* the most calls of post() on one object
MaxPosts == 2

\* the answers to the POST: 200 with the id of the new record, or another
\* status, for which _request raises (lines 117-125)
PostOutcomes ==
  {[ok |-> TRUE, id |-> 7], [ok |-> TRUE, id |-> 12345], [ok |-> FALSE, id |-> 0]}

\* "{:04d}".format(n)
Format04d(n) ==
  LET d == IntStr(n)
  IN  IF Len(d) >= 4 THEN d ELSE [i \in 1..(4 - Len(d)) |-> "0"] \o d

\* NewInstitution.post (502-510), called on a constructed object
Post ==
  /\ pc = "done"
  /\ Len(postResults) < MaxPosts
  /\ apiCalls' = ApiPost(apiCalls, "/adminapi/v1/institutions/")
  /\ \E r \in PostOutcomes :
       /\ postResults' = Append(postResults, r)
       /\ institution' = IF r.ok
                           THEN Put(institution, "deqar_id", S_DEQARINST \o Format04d(r.id))
                           ELSE institution
  /\ UNCHANGED <<pc, raw, data, name_primary, website, country, error, warnings,
                 domains, domainQueries, domainHits, nameQueries, headResult, translit_module>>

NextInst ==
  \/ StepRequired /\ UNCHANGED exceptInst
  \/ StepPrimary /\ UNCHANGED exceptInst
  \/ StepWebsite /\ UNCHANGED exceptInst
  \/ StepDomain /\ UNCHANGED exceptInst
  \/ StepCountry /\ UNCHANGED exceptInst
  \/ StepRecord /\ UNCHANGED exceptInst
  \/ StepNames /\ UNCHANGED exceptInst
  \/ StepDates /\ UNCHANGED exceptInst
  \/ StepIdentifier /\ UNCHANGED exceptInst
  \/ StepParent /\ UNCHANGED exceptInst
  \/ StepLevels /\ UNCHANGED exceptInst
  \/ Post /\ UNCHANGED exceptInst

SpecInst == InitInst /\ [][NextInst]_vars

(***************************************************************************)
(* Properties of the institution normaliser (checked under SpecInst).      *)
(***************************************************************************)
\* a column is given in the caller's map when it holds more than white space
Given(col) == col \in DOMAIN raw /\ strip(raw[col]) # <<>>

RawWebsite == strip(raw["website_link"])

\* C1: once the domain look-up has run, the index has been queried with the
\* core domain of the website as the caller supplied it (and every known
\* institution registered under that domain has been surfaced), and also
\* with the core domain of the resolved URL when that one is different.
C1_RawAndResolvedDomainQueried ==
  (domainQueries # <<>> /\ ~CoreDomainFails(RawWebsite)) =>
    /\ core_domain(RawWebsite) \in Range(domainQueries)
    /\ QueryHits(domains, RawWebsite) \subseteq domainHits
    /\ core_domain(website) \in Range(domainQueries)

\* C2: every record produced has a non-empty name_primary: the trimmed
\* English name when an English name is present (non-empty after trimming),
\* otherwise the trimmed official name.
C2_NamePrimaryNonEmpty ==
  (DOMAIN institution # {}) =>
    /\ institution.name_primary # <<>>
    /\ institution.name_primary =
         IF Given("name_english") THEN strip(raw["name_english"])
         ELSE strip(raw["name_official"])

\* C6: when a transliteration directive is supplied and the transliterate
\* module is not available, normalisation raises no error, the record has
\* no name_official_transliterated and a warning has been raised.
C6_TranslitUnavailableIsNotFatal ==
  (translit_module = "missing") =>
    /\ error = ""
    /\ "name_official_transliterated" \notin DOMAIN Names0
    /\ "transliterate module not available" \in Range(warnings)

CountryColumns == <<"country_id", "country_iso", "country">>
CountrySupplied == \E i \in 1..3 : Given(CountryColumns[i])
\* the first designator supplied, in the order of the columns
SuppliedDesignator ==
  strip(raw[CountryColumns[CHOOSE i \in 1..3 :
                             /\ Given(CountryColumns[i])
                             /\ \A j \in 1..(i - 1) : ~Given(CountryColumns[j])]])
CountryStepDone ==
  \/ pc \in {"record", "names", "dates", "identifier", "parent", "levels", "done"}
  \/ DOMAIN institution # {}
  \/ error \in {"DataError: Unknown country", "DataError: Country needs to be specified"}

\* C7: after the country step, a designator supplied in any of country_id,
\* country_iso, country has been resolved (the record then has exactly one
\* country entry, with the id of the matching reference country) or the
\* unknown-country error was raised because no reference country matches;
\* the missing-country error is raised only when no designator was supplied.
C7_CountryResolvedOrUnknown ==
  CountryStepDone =>
    /\ (error = "DataError: Country needs to be specified") <=> ~CountrySupplied
    /\ (error = "DataError: Unknown country") <=>
         (CountrySupplied /\ CountriesGet(SuppliedDesignator) = 0)
    /\ (DOMAIN institution # {}) =>
         /\ Len(institution.countries) = 1
         /\ institution.countries[1].country = CountriesGet(SuppliedDesignator)
         /\ institution.countries[1].country # 0

IdentifierStepDone ==
  \/ pc \in {"parent", "levels", "done"}
  \/ "hierarchical_parent" \in DOMAIN institution
  \/ error \in {"DataError: Identifier needs to have an agency ID or a resource",
                "DataError: Malformed parent_id", "DataError: Unknown parent_type"}

\* C8: for an input with a non-empty identifier, the identifier step fails
\* with the identifier-resource-missing error whenever neither an agency
\* nor a resource is given, and otherwise leaves exactly one identifier entry
\* whose resource is a non-empty label: the explicit one, or 'local
\* identifier' when only an agency is given.
C8_IdentifierHasResource ==
  (Given("identifier") /\ IdentifierStepDone) =>
    IF ~Given("identifier_resource") /\ ~Given("agency_id")
      THEN error = "DataError: Identifier needs to have an agency ID or a resource"
      ELSE /\ "identifiers" \in DOMAIN institution
           /\ Len(institution.identifiers) = 1
           /\ institution.identifiers[1].resource # PyFalse
           /\ institution.identifiers[1].resource # <<>>
           /\ institution.identifiers[1].resource =
                IF Given("identifier_resource") THEN strip(raw["identifier_resource"])
                ELSE S_local_identifier

ParentSupplied == Truthy(csv_coalesce(raw, <<"parent_id", "parent_deqar_id">>))
SuppliedParent == upper(csv_coalesce(raw, <<"parent_id", "parent_deqar_id">>))
\* a bare numeric ID, or DEQARINST followed by digits
WellFormedParent ==
  \/ isdigit(SuppliedParent)
  \/ StartsWith(SuppliedParent, S_DEQARINST) /\ isdigit(Drop(SuppliedParent, 9))
ParentNumber ==
  int(IF isdigit(SuppliedParent) THEN SuppliedParent ELSE Drop(SuppliedParent, 9))
ParentStepDone ==
  \/ pc \in {"levels", "done"}
  \/ error \in {"DataError: Malformed parent_id", "DataError: Unknown parent_type"}

\* C9: a supplied parent reference is accepted only if, trimmed and with
\* case ignored, it is a bare numeric ID or DEQARINST followed by digits, and
\* then the parent institution of the record is that number; any other
\* non-empty parent string fails with the malformed-parent-id error.
C9_ParentIdWellFormedOrRejected ==
  (ParentSupplied /\ ParentStepDone) =>
    IF WellFormedParent
      THEN /\ "hierarchical_parent" \in DOMAIN institution
           /\ institution.hierarchical_parent[1].institution = ParentNumber
      ELSE error = "DataError: Malformed parent_id"

LeapYear(y) == (y % 4 = 0 /\ y % 100 # 0) \/ y % 400 = 0
DaysInMonth(y, m) ==
  IF m = 2 THEN (IF LeapYear(y) THEN 29 ELSE 28)
  ELSE IF m \in {4, 6, 9, 11} THEN 30
  ELSE 31

\* year "-" month "-" day, all digits, naming a day of the calendar
IsCalendarDate(d) ==
  LET md == Drop(d, 5)
      month == Take(md, Find(md, "-") - 1)
      day == Drop(md, Find(md, "-"))
  IN  /\ Len(d) >= 8
      /\ isdigit(Take(d, 4))
      /\ d[5] = "-"
      /\ Find(md, "-") # 0
      /\ isdigit(month)
      /\ isdigit(day)
      /\ int(month) \in 1..12
      /\ int(day) \in 1..DaysInMonth(int(Take(d, 4)), int(month))

\* a 4-digit year, or a year-month-day that names a day of the calendar
PlausibleDateInput(s) ==
  \/ Len(strip(s)) = 4 /\ isdigit(strip(s))
  \/ IsCalendarDate(strip(s))

DatesStepDone ==
  \/ pc \in {"identifier", "parent", "levels", "done"}
  \/ "identifiers" \in DOMAIN institution
  \/ "hierarchical_parent" \in DOMAIN institution
  \/ error \in {"DataError: Malformed founding_date", "DataError: Malformed closing_date",
                "DataError: Identifier needs to have an agency ID or a resource",
                "DataError: Malformed parent_id", "DataError: Unknown parent_type"}

\* C10: every founding_date and closing_date of a record is a valid calendar
\* date, and a non-empty date input that is neither a 4-digit year nor a
\* calendar-plausible year-month-day makes the dates step fail with the
\* malformed-date error.
C10_DatesAreCalendarDates ==
  /\ ("founding_date" \in DOMAIN institution) => IsCalendarDate(institution.founding_date)
  /\ ("closing_date" \in DOMAIN institution) => IsCalendarDate(institution.closing_date)
  /\ (DatesStepDone /\ Given("founding_date") /\ ~PlausibleDateInput(raw["founding_date"]))
       => error = "DataError: Malformed founding_date"
  /\ (DatesStepDone /\ Given("closing_date") /\ ~PlausibleDateInput(raw["closing_date"])
        /\ error # "DataError: Malformed founding_date")
       => error = "DataError: Malformed closing_date"

\* the names block is final
NamesStepDone == pc \in {"dates", "identifier", "parent", "levels", "done"}

DuplicateNameWarnings ==
  Cardinality({i \in DOMAIN warnings :
                 warnings[i] \in {"DUPLICATE NAME: English = official",
                                  "DUPLICATE NAME: version = official",
                                  "DUPLICATE NAME: version = English"}})

\* two of the three names are given and are the same name once trimmed
EnglishIsOfficial ==
  Given("name_english") /\ strip(raw["name_english"]) = strip(raw["name_official"])
VersionIsOfficial ==
  Given("name_version") /\ strip(raw["name_version"]) = strip(raw["name_official"])
VersionIsEnglish ==
  /\ Given("name_version") /\ Given("name_english")
  /\ strip(raw["name_version"]) = strip(raw["name_english"])

CollapsedPairs ==
  (IF EnglishIsOfficial THEN 1 ELSE 0) + (IF VersionIsOfficial THEN 1 ELSE 0)
    + (IF VersionIsEnglish THEN 1 ELSE 0)

\* C11: once the names block is built: an input whose name_english equals its
\* name_official, with no name_version, has raised exactly one duplicate-name
\* warning and the block holds name_official and no name_english; in general
\* the number of duplicate-name warnings is the number of pairs among the
\* official name, the English name and the name version that are the same
\* name, and the block holds no English name that is the official name and
\* no name version that is the official or the English name.
C11_DuplicateNamesCollapsed ==
  NamesStepDone =>
    /\ ("name_english" \in DOMAIN raw /\ raw["name_english"] = raw["name_official"]
          /\ "name_version" \notin DOMAIN raw)
         => /\ DuplicateNameWarnings = 1
            /\ DOMAIN institution.names[1] \cap {"name_official", "name_english"}
                 = {"name_official"}
    /\ DuplicateNameWarnings = CollapsedPairs
    /\ EnglishIsOfficial => "name_english" \notin DOMAIN institution.names[1]
    /\ (VersionIsOfficial \/ VersionIsEnglish)
         => "alternative_names" \notin DOMAIN institution.names[1]

\* the write requests among the requests sent
Writes == {i \in DOMAIN apiCalls : apiCalls[i].method \in {"POST", "PUT"}}

\* C15: constructing the record sends no write request (POST or PUT),
\* whatever the input and however construction ends; every write sent is
\* the write of one call of post(); and the record carries a deqar_id only
\* once such a write has been answered successfully.
C15_WritesOnlyByPost ==
  /\ pc # "done" => Writes = {}
  /\ Cardinality(Writes) = Len(postResults)
  /\ "deqar_id" \in DOMAIN institution
       => \E i \in DOMAIN postResults : postResults[i].ok

\* a record that was posted twice, first without and then with success,
\* after its construction had sent read requests
C15_Witness ==
  /\ pc = "done"
  /\ Len(postResults) = 2
  /\ ~postResults[1].ok
  /\ postResults[2].ok
  /\ "deqar_id" \in DOMAIN institution
  /\ Len(apiCalls) >= 5

\* C16: once the website has passed the static check and the HEAD request
\* was sent, normalisation has produced a website whatever the request came
\* to; when the resolution did not succeed, that website is the statically
\* normalised URL.
C16_WebsiteResolvedOrStatic ==
  headResult # "" =>
    /\ website # PyNone
    /\ error # "RequestException"
    /\ headResult # "ok" => website = StaticUrl(csv_coalesce(raw, <<"website_link">>))

\* the steps of __init__ that can fail, in the order the claim gives them
StepOrder ==
  <<"required", "website", "domain", "country", "names", "dates", "identifier", "parent">>

\* the errors with which each of these steps ends
StepErrors ==
  <<{"DataError: must have an official name and a website"},
    {"DataError: not a valid http/https URL", "RequestException"},
    {"DataError: not a valid http/https URL"},
    {"DataError: Unknown country", "DataError: Country needs to be specified"},
    {"LanguagePackNotFound", "KeyError"},
    {"DataError: Malformed founding_date", "DataError: Malformed closing_date"},
    {"DataError: Identifier needs to have an agency ID or a resource"},
    {"DataError: Malformed parent_id", "DataError: Unknown parent_type"}>>

RawColumn(col) == csv_coalesce(raw, <<col>>)

\* the input (with the answers of the network and of the import so far)
\* has what makes step k fail
Defect(k) ==
  CASE k = 1 -> ~(Truthy(RawColumn("name_official")) /\ Truthy(RawColumn("website_link")))
    [] k = 2 -> \/ ~UrlMatch(RawColumn("website_link")).ok
                \/ headResult = "RequestException"
    [] k = 3 -> website # PyNone /\ CoreDomainFails(website)
    [] k = 4 -> LET which == csv_coalesce(raw, CountryColumns)
                IN  ~Truthy(which) \/ CountriesGet(which) = 0
    [] k = 5 -> /\ Truthy(RawColumn("name_official_transliterated"))
                /\ raw["name_official_transliterated"][1] = "*"
                /\ translit_module # ""
                /\ ~(/\ translit_module = "installed"
                      /\ Take(Drop(raw["name_official_transliterated"], 1), 2) \in LanguagePacks)
    [] k = 6 -> \/ /\ Truthy(RawColumn("founding_date"))
                   /\ ~DateMatch(raw["founding_date"]).ok
                \/ /\ Truthy(RawColumn("closing_date"))
                   /\ ~DateMatch(raw["closing_date"]).ok
    [] k = 7 -> /\ Truthy(RawColumn("identifier"))
                /\ "identifier_resource" \notin DOMAIN raw
                /\ "agency_id" \notin DOMAIN raw
    [] k = 8 -> LET p == csv_coalesce(raw, <<"parent_id", "parent_deqar_id">>)
                IN  /\ Truthy(p)
                    /\ \/ ~ParentMatch(p).ok
                       \/ /\ Truthy(RawColumn("parent_type"))
                          /\ HierarchicalTypesGet(RawColumn("parent_type")) = 0

\* how many of the steps have been passed
StepsPassed ==
  IF pc = "failed" THEN CHOOSE k \in 1..8 : error \in StepErrors[k] /\ Defect(k)
                                            /\ \A j \in 1..(k - 1) : ~Defect(j)
  ELSE IF pc \in {"levels", "done"} THEN 9
  ELSE IF pc = "primary" THEN 2
  ELSE IF pc = "record" THEN 5
  ELSE CHOOSE k \in 1..8 : StepOrder[k] = pc

\* C21: the steps run in the order given and construction stops at the
\* first that fails: when it failed, the error is one of the first step
\* whose defect the input has; a step is reached only by inputs without a
\* defect for any earlier step; and an input that fails at the country
\* step has caused no name search.
C21_FirstFailingStepDecides ==
  /\ pc = "failed" =>
       \E k \in 1..8 : /\ error \in StepErrors[k]
                        /\ Defect(k)
                        /\ \A j \in 1..(k - 1) : ~Defect(j)
  /\ pc \notin {"failed", "idle"} =>
       \A j \in 1..8 : j < StepsPassed => ~Defect(j)
  /\ error \in StepErrors[4] => nameQueries = <<>>

\* an unknown country together with a malformed founding date, an
\* identifier without resource and a malformed parent: the unknown-country
\* error, and no name search
C21_Witness ==
  /\ pc = "failed"
  /\ error = "DataError: Unknown country"
  /\ Defect(6) /\ Defect(7) /\ Defect(8)
  /\ nameQueries = <<>>
  /\ headResult = "ok"

(***************************************************************************)
(* findDuplicateReports.py : DuplicateSets                                 *)
(***************************************************************************)
Ord(c) == CHOOSE i \in 1..Len(CodePoints) : CodePoints[i] = c

RECURSIVE StrLess(_, _)
StrLess(a, b) ==
  IF b = <<>> THEN FALSE
  ELSE IF a = <<>> THEN TRUE
  ELSE IF Head(a) # Head(b) THEN Ord(Head(a)) < Ord(Head(b))
  ELSE StrLess(Tail(a), Tail(b))

\* the list as it came, for comparison with sorted()
unsortedInts(s) == s

sortedInts(s) == SortSeq(s, LAMBDA x, y : x < y)
sortedStrs(s) == SortSeq(s, LAMBDA x, y : StrLess(x, y))

\* str() of a value inside an f-string: None is written as the word None
S_None == <<"N", "o", "n", "e">>
Format(v) == IF v = PyNone THEN S_None ELSE v

\* json.dumps of a string, of None, of a list of numbers, of a list of strings
RECURSIVE JsonEscape(_)
JsonEscape(str) ==
  IF str = <<>> THEN <<>>
  ELSE (IF Head(str) \in {"\"", "\\"} THEN <<"\\", Head(str)>> ELSE <<Head(str)>>)
         \o JsonEscape(Tail(str))

JsonValue(v) ==
  IF v = PyNone THEN <<"n", "u", "l", "l">>
  ELSE <<"\"">> \o JsonEscape(v) \o <<"\"">>

JsonList(rendered) == <<"[">> \o Join(rendered, <<",", " ">>) \o <<"]">>

\* hashlib.md5(...).hexdigest(): the digest is kept symbolic, one digest per
\* text (collisions of MD5 are outside the model)
Md5(text) == <<"md5:">> \o text

ProgrammeString(prog) ==
  Format(prog["name_primary"]) \o <<"|">> \o Format(prog["qf_ehea_level"]) \o <<"|">>
    \o Format(prog["nqf_level"]) \o <<"|">> \o Format(prog["programme_type"]) \o <<"|">>
    \o Format(prog["workload_ects"])

InstitutionIds(report) ==
  [i \in DOMAIN report["institutions"] |-> report["institutions"][i]["id"]]
ProgrammeStrings(report) ==
  [i \in DOMAIN report["programmes"] |-> ProgrammeString(report["programmes"][i])]

\* the tuple without the end of validity, for comparison with Fields
FieldsWithoutValidTo(report) ==
  [institutions |-> sortedInts(InstitutionIds(report)),
   programmes |-> sortedStrs(ProgrammeStrings(report)),
   agency_esg_activity |-> report["agency_esg_activity"],
   valid_from |-> report["valid_from"],
   valid_to |-> PyNone,
   decision |-> report["decision"]]

\* the tuple `fields` of _hash_report
Fields(report) ==
  [institutions |-> sortedInts(InstitutionIds(report)),
   programmes |-> sortedStrs(ProgrammeStrings(report)),
   agency_esg_activity |-> report["agency_esg_activity"],
   valid_from |-> report["valid_from"],
   valid_to |-> IF "valid_to" \in DOMAIN report THEN report["valid_to"] ELSE PyNone,
   decision |-> report["decision"]]

JsonDumps(f) ==
  JsonList(<<JsonList([i \in DOMAIN f.institutions |-> IntStr(f.institutions[i])]),
             JsonList([i \in DOMAIN f.programmes |-> JsonValue(f.programmes[i])]),
             JsonValue(f.agency_esg_activity),
             JsonValue(f.valid_from),
             JsonValue(f.valid_to),
             JsonValue(f.decision)>>)

\* the keys whose absence makes _hash_report raise KeyError
HashKeys == {"institutions", "programmes", "agency_esg_activity", "valid_from", "decision"}
HashRaises(report) == ~(HashKeys \subseteq DOMAIN report)

hash_report(report) == Md5(JsonDumps(Fields(report)))

\* self.store[agency][h]: a defaultdict creates the entry when it is read
Touch(st, agency, h) ==
  LET inner == IF agency \in DOMAIN st THEN st[agency] ELSE EmptyDict
  IN  Put(st, agency, IF h \in DOMAIN inner THEN inner ELSE Put(inner, h, {}))

\* DuplicateSets.add: [store, raised]
\* add() putting the report in the place of the group, not into it
DuplicateSetsAddReplacingGroup(st, report) ==
  IF HashRaises(report) \/ "agency_acronym" \notin DOMAIN report
    THEN [store |-> st, raised |-> TRUE]
  ELSE LET a == report["agency_acronym"]
           h == hash_report(report)
           touched == Touch(st, a, h)
       IN  IF "id" \notin DOMAIN report
             THEN [store |-> touched, raised |-> TRUE]
             ELSE [store |-> Put(touched, a, Put(touched[a], h, {report["id"]})),
                   raised |-> FALSE]

DuplicateSetsAdd(st, report) ==
  IF HashRaises(report) \/ "agency_acronym" \notin DOMAIN report
    THEN [store |-> st, raised |-> TRUE]
  ELSE LET a == report["agency_acronym"]
           h == hash_report(report)
           touched == Touch(st, a, h)
       IN  IF "id" \notin DOMAIN report
             THEN [store |-> touched, raised |-> TRUE]
             ELSE [store |-> Put(touched, a, Put(touched[a], h, touched[a][h] \cup {report["id"]})),
                   raised |-> FALSE]

(***************************************************************************)
(* The reports the registry serves.                                        *)
(***************************************************************************)
PAGESIZE == 2500

\* the most reports the registry serves in one run
MaxReports == 2

S_A == <<"A">>
S_B == <<"B">>
S_activity == <<"p", "r", "o", "g">>
S_2020 == <<"2", "0", "2", "0">>
S_2025 == <<"2", "0", "2", "5">>
S_positive == <<"o", "k">>
S_negative == <<"n", "o">>

Programme(name, level, nqf) ==
  [k \in {"name_primary", "qf_ehea_level", "nqf_level", "programme_type", "workload_ects"} |->
     CASE k = "name_primary" -> name
       [] k = "qf_ehea_level" -> level
       [] k = "nqf_level" -> nqf
       [] k = "programme_type" -> <<"t">>
       [] OTHER -> <<"6", "0">>]

P_q == Programme(<<"q">>, <<"c">>, <<"7">>)
P_z == Programme(<<"z">>, <<"c">>, <<"7">>)
\* name 'a|b' with level 'c', and name 'a' with level 'b|c'
P_ab_c == Programme(<<"a", "|", "b">>, <<"c">>, <<"7">>)
P_a_bc == Programme(<<"a">>, <<"b", "|", "c">>, <<"7">>)
\* no national level, and a national level spelled 'None'
P_nqfNone == Programme(<<"q">>, <<"c">>, PyNone)
P_nqfWord == Programme(<<"q">>, <<"c">>, S_None)

Hei(id) == [k \in {"id"} |-> id]

Report(id, agency, heis, progs, decision) ==
  [k \in {"id", "agency_acronym", "institutions", "programmes", "agency_esg_activity",
          "valid_from", "decision"} |->
     CASE k = "id" -> id
       [] k = "agency_acronym" -> agency
       [] k = "institutions" -> heis
       [] k = "programmes" -> progs
       [] k = "agency_esg_activity" -> S_activity
       [] k = "valid_from" -> S_2020
       [] OTHER -> decision]

R1 == Report(1, S_A, <<Hei(1), Hei(2)>>, <<P_q, P_z>>, S_positive)

ReportSet ==
  { R1,
    \* the fields of R1 with both lists in the other order, valid_to given as None
    Put(Report(2, S_A, <<Hei(2), Hei(1)>>, <<P_z, P_q>>, S_positive), "valid_to", PyNone),
    \* the fields of R1 under another agency
    Report(3, S_B, <<Hei(1), Hei(2)>>, <<P_q, P_z>>, S_positive),
    \* one field away from R1: institutions, programmes, valid_to, decision
    Report(4, S_A, <<Hei(1)>>, <<P_q, P_z>>, S_positive),
    Report(5, S_A, <<Hei(1), Hei(2)>>, <<P_q>>, S_positive),
    Put(Put(R1, "id", 6), "valid_to", S_2025),
    Report(7, S_A, <<Hei(1), Hei(2)>>, <<P_q, P_z>>, S_negative),
    \* programme fields holding the separator
    Report(8, S_A, <<Hei(1)>>, <<P_ab_c>>, S_positive),
    Report(9, S_A, <<Hei(1)>>, <<P_a_bc>>, S_positive),
    \* a missing value and the word None
    Report(10, S_A, <<Hei(1)>>, <<P_nqfNone>>, S_positive),
    Report(11, S_A, <<Hei(1)>>, <<P_nqfWord>>, S_positive),
    \* records lacking a key: decision, id
    Del(Report(12, S_A, <<Hei(1), Hei(2)>>, <<P_q, P_z>>, S_positive), "decision"),
    Del(R1, "id") }

\* the counts a response may carry: nothing, one full page, a little more
Counts == {0, PAGESIZE, PAGESIZE + 1}

RECURSIVE SumLen(_)
SumLen(rs) == IF rs = <<>> THEN 0 ELSE Len(Head(rs).results) + SumLen(Tail(rs))

\* the result lists a response may carry
Pages(room) == UNION {[1..n -> ReportSet] : n \in 0..room}

\* every (agency, hash) entry of the store
Entries(st) == UNION {{<<a, h>> : h \in DOMAIN st[a]} : a \in DOMAIN st}
DuplicateEntries(st) == {e \in Entries(st) : Cardinality(st[e[1]][e[2]]) > 1}

RECURSIVE SumCard(_, _)
SumCard(st, es) ==
  IF es = {} THEN 0
  ELSE LET e == CHOOSE x \in es : TRUE
       IN  Cardinality(st[e[1]][e[2]]) + SumCard(st, es \ {e})

NormaliserIdle ==
  /\ pc = "idle"
  /\ raw = EmptyDict
  /\ data = EmptyDict
  /\ name_primary = PyNone
  /\ website = PyNone
  /\ country = 0
  /\ institution = EmptyDict
  /\ error = ""
  /\ warnings = <<>>
  /\ domains = NotBuilt
  /\ domainQueries = <<>>
  /\ domainHits = {}
  /\ nameQueries = <<>>
  /\ headResult = ""
  /\ translit_module = ""
  /\ apiCalls = <<>>
  /\ postResults = <<>>

InitDup == ScriptStart /\ NormaliserIdle /\ LevelSetIdle /\ CoreIdle /\ CsvIdle /\ IndexIdle /\ IdsIdle /\ PagerIdle

\* lines 114-118: one turn of the while loop up to the for statement
FetchPage ==
  /\ dpc = "loop"
  /\ pending = <<>>
  /\ offset < total
  /\ \E count \in Counts, results \in Pages(MaxReports - SumLen(responses)) :
       /\ responses' = Append(responses, [offset |-> offset, limit |-> PAGESIZE,
                                          count |-> count, results |-> results])
       /\ total' = count
       /\ pending' = results
  /\ offset' = offset + PAGESIZE
  /\ UNCHANGED <<dpc, store, added, interrupted, reported, n_sets, n_dups>>

\* lines 119-120: sets.add(r) for the next result of the page; a KeyError
\* leaves the try block, which catches KeyboardInterrupt only
AddReport ==
  /\ dpc = "loop"
  /\ pending # <<>>
  /\ LET res == DuplicateSetsAdd(store, Head(pending))
     IN  /\ store' = res.store
         /\ IF res.raised
              THEN dpc' = "crashed" /\ UNCHANGED <<pending, added>>
              ELSE /\ added' = added \cup {Head(pending)}
                   /\ pending' = Tail(pending)
                   /\ UNCHANGED dpc
  /\ UNCHANGED <<offset, total, responses, interrupted, reported, n_sets, n_dups>>

\* line 114: the loop condition fails
LoopExit ==
  /\ dpc = "loop"
  /\ pending = <<>>
  /\ ~(offset < total)
  /\ dpc' = "report"
  /\ UNCHANGED <<offset, total, store, pending, responses, added, interrupted,
                 reported, n_sets, n_dups>>

\* an interrupt after which the script starts over with an empty store
KeyboardInterruptDroppingStore ==
  /\ dpc = "loop"
  /\ dpc' = "report"
  /\ interrupted' = TRUE
  /\ store' = EmptyDict
  /\ UNCHANGED <<offset, total, pending, responses, added, reported, n_sets, n_dups>>

\* lines 121-122: Ctrl-C during the loop, between two statements or inside
\* sets.add(r) (line 32) after the defaultdicts have created the entry of
\* the report and before its id is added; the rest of the page is left
\* unprocessed
KeyboardInterrupt ==
  /\ dpc = "loop"
  /\ dpc' = "report"
  /\ interrupted' = TRUE
  /\ \E insideAdd \in BOOLEAN :
       store' = IF /\ insideAdd
                   /\ pending # <<>>
                   /\ ~HashRaises(Head(pending))
                   /\ "agency_acronym" \in DOMAIN Head(pending)
                  THEN Touch(store, Head(pending)["agency_acronym"],
                             hash_report(Head(pending)))
                  ELSE store
  /\ UNCHANGED <<offset, total, pending, responses, added, reported, n_sets, n_dups>>

\* lines 128-187: the sets with more than one report are listed and counted
FinalReport ==
  /\ dpc = "report"
  /\ reported' = {[agency |-> e[1], hash |-> e[2], ids |-> store[e[1]][e[2]]] :
                    e \in DuplicateEntries(store)}
  /\ n_sets' = Cardinality(DuplicateEntries(store))
  /\ n_dups' = SumCard(store, DuplicateEntries(store))
  /\ dpc' = "done"
  /\ UNCHANGED <<offset, total, store, pending, responses, added, interrupted>>

NextDup ==
  \/ FetchPage /\ UNCHANGED exceptDup
  \/ AddReport /\ UNCHANGED exceptDup
  \/ LoopExit /\ UNCHANGED exceptDup
  \/ KeyboardInterrupt /\ UNCHANGED exceptDup
  \/ FinalReport /\ UNCHANGED exceptDup

SpecDup == InitDup /\ [][NextDup]_vars

(***************************************************************************)
(* Properties of the duplicate finder (checked under SpecDup).             *)
(***************************************************************************)
ReportKeys == HashKeys \cup {"id", "agency_acronym"}
WellFormed(r) == ReportKeys \subseteq DOMAIN r

\* every report the registry has served so far
Served == UNION {Range(responses[i].results) : i \in DOMAIN responses}

InGroup(r) ==
  /\ r["agency_acronym"] \in DOMAIN store
  /\ hash_report(r) \in DOMAIN store[r["agency_acronym"]]
  /\ r["id"] \in store[r["agency_acronym"]][hash_report(r)]

SameGroup(r1, r2) ==
  \E e \in Entries(store) : {r1["id"], r2["id"]} \subseteq store[e[1]][e[2]]

Count(x, s) == Cardinality({i \in DOMAIN s : s[i] = x})
SameItems(s1, s2) == \A x \in Range(s1) \cup Range(s2) : Count(x, s1) = Count(x, s2)

ValidTo(r) == IF "valid_to" \in DOMAIN r THEN r["valid_to"] ELSE PyNone

SameScalars(r1, r2) ==
  /\ r1["agency_esg_activity"] = r2["agency_esg_activity"]
  /\ r1["valid_from"] = r2["valid_from"]
  /\ ValidTo(r1) = ValidTo(r2)
  /\ r1["decision"] = r2["decision"]

\* the fingerprint fields agree, whatever the order of the two lists
SameFields(r1, r2) ==
  /\ SameItems(InstitutionIds(r1), InstitutionIds(r2))
  /\ SameItems(r1["programmes"], r2["programmes"])
  /\ SameScalars(r1, r2)

\* C3: a record lacking a field never ends the scan: the script does not
\* stop on it, and when the loop has run to its end every well-formed report
\* the registry served is in its group.
C3_MalformedReportSkipped ==
  /\ dpc # "crashed"
  /\ (dpc \in {"report", "done"} /\ ~interrupted)
       => \A r \in Served : WellFormed(r) => InGroup(r)

\* C4: two processed reports of one agency with different ids whose
\* fingerprint fields agree (institutions and programmes in any order) have
\* their ids in one and the same set of the store.
C4_SameFieldsSameGroup ==
  \A r1, r2 \in added :
    (/\ r1["id"] # r2["id"]
     /\ r1["agency_acronym"] = r2["agency_acronym"]
     /\ SameFields(r1, r2))
      => \E h \in DOMAIN store[r1["agency_acronym"]] :
           {r1["id"], r2["id"]} \subseteq store[r1["agency_acronym"]][h]

\* two such reports, their lists in different order, came in different pages,
\* the second page bringing the one the first did not
C4_Witness ==
  \E r1, r2 \in added :
    /\ r1["id"] # r2["id"]
    /\ r1["agency_acronym"] = r2["agency_acronym"]
    /\ SameFields(r1, r2)
    /\ r1["institutions"] # r2["institutions"]
    /\ r1["programmes"] # r2["programmes"]
    /\ Len(responses) = 2
    /\ Range(responses[1].results) = {r1}
    /\ Range(responses[2].results) = {r2}
    /\ SameGroup(r1, r2)

\* C5 as stated: two processed reports that differ in the agency or in any
\* fingerprint field never have their ids in the same set, whatever the
\* programme fields hold.
C5_DifferentFieldsDifferentGroup ==
  \A r1, r2 \in added :
    (/\ r1["id"] # r2["id"]
     /\ (r1["agency_acronym"] # r2["agency_acronym"] \/ ~SameFields(r1, r2)))
      => ~SameGroup(r1, r2)

\* the five programme fields as they are written into the joined string
WrittenProgramme(prog) ==
  <<Format(prog["name_primary"]), Format(prog["qf_ehea_level"]), Format(prog["nqf_level"]),
    Format(prog["programme_type"]), Format(prog["workload_ects"])>>

WrittenProgrammes(r) ==
  [i \in DOMAIN r["programmes"] |-> WrittenProgramme(r["programmes"][i])]

NoSeparator(r) ==
  \A i \in DOMAIN r["programmes"] :
    \A f \in Range(WrittenProgramme(r["programmes"][i])) : "|" \notin Range(f)

SameWrittenFields(r1, r2) ==
  /\ SameItems(InstitutionIds(r1), InstitutionIds(r2))
  /\ SameItems(WrittenProgrammes(r1), WrittenProgrammes(r2))
  /\ SameScalars(r1, r2)

\* C5, restricted: two processed reports whose programme fields hold no
\* '|' and that differ in the agency, the institutions, a scalar field or the
\* written text of a programme field never have their ids in the same set.
C5_DifferentWrittenFieldsDifferentGroup ==
  \A r1, r2 \in added :
    (/\ r1["id"] # r2["id"]
     /\ NoSeparator(r1) /\ NoSeparator(r2)
     /\ (r1["agency_acronym"] # r2["agency_acronym"] \/ ~SameWrittenFields(r1, r2)))
      => ~SameGroup(r1, r2)

\* two reports of one agency that differ in the end of validity only, and two
\* that differ in a programme, have been processed
C5_Witness ==
  \E r1, r2 \in added :
    /\ r1["id"] # r2["id"]
    /\ r1["agency_acronym"] = r2["agency_acronym"]
    /\ NoSeparator(r1) /\ NoSeparator(r2)
    /\ SameItems(InstitutionIds(r1), InstitutionIds(r2))
    /\ r1["programmes"] = r2["programmes"]
    /\ ValidTo(r1) # ValidTo(r2)
    /\ ~SameGroup(r1, r2)

(***************************************************************************)
(* create_qf_ehea_level_set(string, strict) called on its own, and str()   *)
(* of the set.                                                             *)
(***************************************************************************)
\* the most entries the caller writes into one levels string
MaxLevelItems == 2

LevelItems ==
  {<<"s", "h", "o", "r", "t", " ", "c", "y", "c", "l", "e">>,
   <<"t", "h", "i", "r", "d", " ", "c", "y", "c", "l", "e">>,
   <<"f", "i", "r", "s", "t">>,
   <<"s", "e", "c", "o", "n", "d", " ", "c", "y", "c", "l", "e">>,
   <<"E", "Q", "F", " ", "6">>,
   <<"E", "Q", "F", " ", "7">>,
   <<"s", "o", "m", "e", "t", "h", "i", "n", "g", " ", "a", "b", "o", "u", "t", " ", "s", "p", "a", "m">>,
   <<"6", "0">>,
   <<"2">>,
   <<"4">>,
   <<"9">>}

\* what the caller puts between two entries
ItemSeparators == {<<",", " ">>, <<",", ",">>}

\* the cycle keywords as a caller writes them, each with the code of its level
KeywordItems ==
  <<[item |-> <<"s", "h", "o", "r", "t", " ", "c", "y", "c", "l", "e">>, code |-> 0],
    [item |-> <<"f", "i", "r", "s", "t">>, code |-> 1],
    [item |-> <<"s", "e", "c", "o", "n", "d", " ", "c", "y", "c", "l", "e">>, code |-> 2],
    [item |-> <<"t", "h", "i", "r", "d", " ", "c", "y", "c", "l", "e">>, code |-> 3]>>

\* the same level written as its EQF number
EqfItem(code) == <<"E", "Q", "F", " ">> \o IntStr(code + 5)

\* the inputs a caller may pass after `items` that name the same levels:
\* the entries in another order, an entry repeated, a keyword written as its
\* EQF number
Rewrites(items) ==
  {[i \in DOMAIN items |-> items[p[i]]] : p \in Permutations(DOMAIN items)}
    \cup {Append(items, items[i]) : i \in DOMAIN items}
    \cup {[items EXCEPT ![x[1]] = EqfItem(KeywordItems[x[2]].code)] :
            x \in {y \in (DOMAIN items) \X (DOMAIN KeywordItems) :
                     KeywordItems[y[2]].item = items[y[1]]}}

\* QfEheaLevelSet.__str__
LevelSetStr(levels) ==
  <<"Q", "F", "-", "E", "H", "E", "A", ":", " ">>
    \o Join([i \in DOMAIN levels |-> IntStr(levels[i].id + 4)], <<"-">>)

InitLevels ==
  /\ ScriptStart
  /\ PagerIdle
  /\ IdsIdle
  /\ IndexIdle
  /\ NormaliserIdle
  /\ CoreIdle
  /\ CsvIdle
  /\ qf_levels \in LevelEnumerations
  /\ lpc = "input"
  /\ litems \in UNION {[1..n -> LevelItems] : n \in 0..MaxLevelItems}
  /\ lstring \in {Join(litems, sep) : sep \in ItemSeparators}
  /\ lstrict \in BOOLEAN
  /\ lset = <<>>
  /\ ltext = NotBuilt
  /\ lprev = <<>>

\* create_qf_ehea_level_set(lstring, strict=lstrict)
CreateLevelSet ==
  /\ lpc = "input"
  /\ LET r == QfEheaLevelSet(lstring, lstrict)
     IN  IF r.ok THEN lset' = r.levels /\ lpc' = "built"
         ELSE lpc' = "raised" /\ UNCHANGED lset
  /\ UNCHANGED <<qf_levels, litems, lstring, lstrict, ltext, lprev>>

\* str(level_set)
StrLevelSet ==
  /\ lpc = "built"
  /\ ltext = NotBuilt
  /\ ltext' = LevelSetStr(lset)
  /\ UNCHANGED <<qf_levels, lpc, litems, lstring, lstrict, lset, lprev>>

\* the caller passes the same levels written another way
NextLevelInput ==
  /\ lpc = "built"
  /\ lprev = <<>>
  /\ \E items \in Rewrites(litems) :
       /\ litems' = items
       /\ lstring' = Join(items, <<",", " ">>)
  /\ lprev' = <<[items |-> litems, string |-> lstring, set |-> lset]>>
  /\ lpc' = "input"
  /\ lset' = <<>>
  /\ ltext' = NotBuilt
  /\ UNCHANGED <<qf_levels, lstrict>>

NextLevels ==
  \/ CreateLevelSet /\ UNCHANGED exceptLevels
  \/ StrLevelSet /\ UNCHANGED exceptLevels
  \/ NextLevelInput /\ UNCHANGED exceptLevels

SpecLevels == InitLevels /\ [][NextLevels]_vars

(***************************************************************************)
(* Properties of the level set (checked under SpecLevels).                 *)
(***************************************************************************)
\* the tokens of the input: what lies between its separators
TokensOf(string) ==
  ReSplit(rstripSet(lstripSet(string, LevelStripChars), LevelStripChars))

\* the level tokens and the code each stands for: the digits 0-3 and 5-8,
\* and the cycle keywords
LevelTokenCodes ==
  {<<<<"0">>, 0>>, <<<<"1">>, 1>>, <<<<"2">>, 2>>, <<<<"3">>, 3>>,
   <<<<"5">>, 0>>, <<<<"6">>, 1>>, <<<<"7">>, 2>>, <<<<"8">>, 3>>,
   <<<<"s", "h", "o", "r", "t">>, 0>>, <<<<"f", "i", "r", "s", "t">>, 1>>, <<<<"s", "e", "c", "o", "n", "d">>, 2>>,
   <<<<"s", "e", "c", "o", "u", "n", "d">>, 2>>, <<<<"t", "h", "i", "r", "d">>, 3>>}

IsLevelToken(tok) == \E x \in LevelTokenCodes : x[1] = tok

\* the codes of the level tokens among the tokens of the input
NamedCodes(string) ==
  {x[2] : x \in {y \in LevelTokenCodes : y[1] \in Range(TokensOf(string))}}

HasStrayToken(string) ==
  \E tok \in Range(TokensOf(string)) : ~IsLevelToken(tok) /\ tok # S_cycle

CodesOfSet(levels) == {levels[i].code : i \in DOMAIN levels}

C13_SameLevelsHoweverWritten ==
  (lpc = "built" /\ ~lstrict) =>
    /\ \A i, j \in DOMAIN lset : i # j => lset[i] # lset[j]
    /\ lprev # <<>> => Range(lset) = Range(lprev[1].set)

\* 'first, second cycle' was followed by 'EQF 6, second cycle', and
\* 'EQF 6, EQF 7' by itself with an entry repeated; two levels each time
C13_Witness ==
  /\ lpc = "built" /\ ~lstrict /\ lprev # <<>>
  /\ Cardinality(Range(lset)) = 2
  /\ \/ /\ lprev[1].items = <<<<"f", "i", "r", "s", "t">>, <<"s", "e", "c", "o", "n", "d", " ", "c", "y", "c", "l", "e">>>>
        /\ litems = <<<<"E", "Q", "F", " ", "6">>, <<"s", "e", "c", "o", "n", "d", " ", "c", "y", "c", "l", "e">>>>
     \/ /\ lprev[1].items = <<<<"E", "Q", "F", " ", "6">>, <<"E", "Q", "F", " ", "7">>>>
        /\ Len(litems) = 3

\* C14: the text of a level set is 'QF-EHEA: ' followed by the levels, in
\* the order of the set, each written as its code plus five, joined by '-',
\* whatever ids the registry gives the levels.
C14_TextShowsCodePlusFive ==
  ltext # NotBuilt =>
    ltext = <<"Q", "F", "-", "E", "H", "E", "A", ":", " ">>
              \o Join([i \in DOMAIN lset |-> IntStr(lset[i].code + 5)], <<"-">>)

(***************************************************************************)
(* The interrupted scan (checked under SpecDup).                           *)
(***************************************************************************)
\* the report ids the store holds
StoredIds == UNION {store[e[1]][e[2]] : e \in Entries(store)}

\* C17: after an interrupt of the scan every id in the store is the id of a
\* report that was processed to the end, every such report is still in its
\* group, the reports served and not processed are the ones the interrupt
\* found waiting in the page, and once the output is written every two
\* processed reports of one agency with the same fingerprint are in one of
\* the sets put out.
C17_InterruptKeepsGroups ==
  interrupted =>
    /\ \A id \in StoredIds : \E r \in added : r["id"] = id /\ InGroup(r)
    /\ \A r \in added : InGroup(r)
    /\ Served \ added \subseteq Range(pending)
    /\ dpc = "done" =>
         \A r1, r2 \in added :
           (/\ r1["id"] # r2["id"]
            /\ r1["agency_acronym"] = r2["agency_acronym"]
            /\ hash_report(r1) = hash_report(r2))
             => \E s \in reported :
                  /\ s.agency = r1["agency_acronym"]
                  /\ {r1["id"], r2["id"]} \subseteq s.ids

\* the scan was interrupted before the registry's last page, and the one
\* duplicate set found until then was put out
C17_Witness ==
  /\ interrupted
  /\ dpc = "done"
  /\ offset < total
  /\ Cardinality(added) = 2
  /\ n_sets = 1
  /\ n_dups = 2
  /\ \E s \in reported : Cardinality(s.ids) = 2

(***************************************************************************)
(* DomainChecker.core_domain as a function of its argument.                *)
(***************************************************************************)
\* the websites passed in: scheme, subdomain labels, the label of the
\* institution, the ending of the host, path, each part in some spellings or
\* left out
CoreSchemes ==
  {<<>>,
   <<"h", "t", "t", "p", ":", "/", "/">>,
   <<"H", "t", "t", "p", "S", ":", "/", "/">>}
CoreSubdomains ==
  {<<>>,
   <<"w", "w", "w", ".">>,
   <<"W", "W", "W", ".", "a", ".">>}
CoreNames ==
  {<<>>,
   <<"U", "n", "i", ".">>,
   <<"t", "u", "w", "i", "e", "n", ".">>}
CoreEndings ==
  {<<"a", "t">>,
   <<"A", "C", ".", "a", "t">>,
   <<"a", "c", ".", "a", "t">>,
   <<"o", "r", "g">>,
   <<"t", "e", "s", "t">>,
   <<"l", "o", "c", "a", "l", "h", "o", "s", "t">>}
CorePaths ==
  {<<>>,
   <<"/">>,
   <<"/", "e", "n", "/", "I", "n", "d", "e", "x", ".", "h", "t", "m", "l">>}

CoreInputs ==
  {sch \o sub \o name \o ending \o path :
     sch \in CoreSchemes, sub \in CoreSubdomains, name \in CoreNames,
     ending \in CoreEndings, path \in CorePaths}

InitCore ==
  /\ ScriptStart
  /\ PagerIdle
  /\ IdsIdle
  /\ IndexIdle
  /\ NormaliserIdle
  /\ LevelSetIdle
  /\ CsvIdle
  /\ cpc = "input"
  /\ curl \in CoreInputs
  /\ cdomain = NotBuilt
  /\ cagain = NotBuilt

\* core_domain(curl), lines 278-286
CoreDomain ==
  /\ cpc = "input"
  /\ IF CoreDomainFails(curl)
       THEN cpc' = "failed" /\ UNCHANGED cdomain
       ELSE cpc' = "done" /\ cdomain' = core_domain(curl)
  /\ UNCHANGED <<curl, cagain>>

\* core_domain called on the domain it returned
CoreDomainAgain ==
  /\ cpc = "done"
  /\ IF CoreDomainFails(cdomain)
       THEN cpc' = "again failed" /\ UNCHANGED cagain
       ELSE cpc' = "again" /\ cagain' = core_domain(cdomain)
  /\ UNCHANGED <<curl, cdomain>>

NextCore ==
  \/ CoreDomain /\ UNCHANGED exceptCore
  \/ CoreDomainAgain /\ UNCHANGED exceptCore

SpecCore == InitCore /\ [][NextCore]_vars

(***************************************************************************)
(* Properties of core_domain (checked under SpecCore).                     *)
(***************************************************************************)
HasUpper(str) == \E i \in DOMAIN str : str[i] \in Range(UPPER)

EndsWith(str, t) == Len(str) >= Len(t) /\ SubSeq(str, Len(str) - Len(t) + 1, Len(str)) = t

\* the public suffixes as strings
SuffixStrings == {Join(suffix, <<".">>) : suffix \in PublicSuffixes}

\* the domain is one label, a dot and a public suffix, and not a public
\* suffix as a whole
OneLabelAboveSuffix(d) ==
  /\ d \notin SuffixStrings
  /\ \E suffix \in SuffixStrings :
       /\ Len(d) > Len(suffix) + 1
       /\ EndsWith(d, <<".">> \o suffix)
       /\ Find(Take(d, Len(d) - Len(suffix) - 1), ".") = 0

\* the host of the website ends in a public suffix
RecognisableSuffix(u) ==
  LET labels == Split(lower(LenientNetloc(u)), ".")
  IN  \E i \in DOMAIN labels : SubSeq(labels, i, Len(labels)) \in PublicSuffixes

\* C18: whenever core_domain succeeds its result has no upper-case letter
\* and is exactly one label above a public suffix, and core_domain returns
\* the same string for it; it fails exactly for the websites whose host
\* ends in no public suffix.
C18_CoreDomainIdempotentOneLabel ==
  /\ cpc \in {"done", "again", "again failed"}
       => ~HasUpper(cdomain) /\ OneLabelAboveSuffix(cdomain)
  /\ cpc # "again failed"
  /\ cpc = "again" => cagain = cdomain
  /\ cpc \in {"done", "failed"} => (cpc = "failed" <=> ~RecognisableSuffix(curl))

(***************************************************************************)
(* deqarclient.csv.NestedDictReader: the columns of a CSV file are named   *)
(* by paths (name, name[index], steps joined by dots); each row is built   *)
(* into one nested record.                                                 *)
(***************************************************************************)
\* a step of a path: a field of a map, or a position of a list
Key(name) == [name |-> name, index |-> -1]
Idx(i) == [name |-> <<>>, index |-> i]
IsIdx(step) == step.index >= 0

\* one step as written: name, name[integer] or, at the start of the path
\* only, [integer]; a name ends at the first bracket
ParseStep(part, first) ==
  LET k == Find(part, "[")
      name == IF k = 0 THEN part ELSE Take(part, k - 1)
      inner == IF k = 0 THEN <<>> ELSE SubSeq(part, k + 1, Len(part) - 1)
  IN  IF part = <<>> THEN [ok |-> FALSE, steps |-> <<>>]
      ELSE IF k = 0 THEN [ok |-> TRUE, steps |-> <<Key(part)>>]
      ELSE IF part[Len(part)] # "]" \/ ~isdigit(inner) \/ (name = <<>> /\ ~first)
        THEN [ok |-> FALSE, steps |-> <<>>]
      ELSE [ok |-> TRUE,
            steps |-> (IF name = <<>> THEN <<>> ELSE <<Key(name)>>) \o <<Idx(int(inner))>>]

\* the path a header names: [ok, steps]
ParsePath(header) ==
  LET parts == Split(header, ".")
      parsed == [i \in DOMAIN parts |-> ParseStep(parts[i], i = 1)]
  IN  [ok |-> \A i \in DOMAIN parts : parsed[i].ok,
       steps |-> Join([i \in DOMAIN parts |-> parsed[i].steps], <<>>)]

IsPrefix(p, q) == Len(p) <= Len(q) /\ SubSeq(q, 1, Len(p)) = p

\* two paths part where one goes on with a field and the other with a
\* position
KindsDiffer(p, q) ==
  \E k \in 1..Len(p) :
    /\ k <= Len(q)
    /\ SubSeq(p, 1, k - 1) = SubSeq(q, 1, k - 1)
    /\ IsIdx(p[k]) # IsIdx(q[k])

\* a reader that lets a value and a container share a path
ConflictOfKindsOnly(p, q) == KindsDiffer(p, q)

\* two columns cannot both be grafted: one path ends where the other goes
\* on, or they differ in kind at one place
Conflict(p, q) == IsPrefix(p, q) \/ IsPrefix(q, p) \/ KindsDiffer(p, q)

\* the indices the columns give the list that path p enters at step k
Siblings(paths, p, k) ==
  {paths[i][k].index :
     i \in {j \in DOMAIN paths : /\ Len(paths[j]) >= k
                                   /\ SubSeq(paths[j], 1, k - 1) = SubSeq(p, 1, k - 1)
                                   /\ IsIdx(paths[j][k])}}

\* a list that keeps the indices as positions, holes included
PositionAsWritten(paths, p, k) == p[k].index - 1

\* the list is made of the entries in the order of their indices: the
\* position (from 0) of the entry with p's index
Position(paths, p, k) ==
  Cardinality({i \in Siblings(paths, p, k) : i < p[k].index})

\* the path of the leaf in the record built
Assemble(paths, p) ==
  [k \in DOMAIN p |-> IF IsIdx(p[k]) THEN Idx(Position(paths, p, k)) ELSE p[k]]

\* next(reader) for one row: [error, record], the record as the leaves of
\* the columns, in the order of the columns
NestedDict(headers, values) ==
  LET parsed == [i \in DOMAIN headers |-> ParsePath(headers[i])]
      paths == [i \in DOMAIN headers |-> parsed[i].steps]
  IN  IF \E i \in DOMAIN headers : ~parsed[i].ok
        THEN [error |-> "DataError: malformed path", record |-> <<>>]
      ELSE IF \E i, j \in DOMAIN headers : i # j /\ Conflict(paths[i], paths[j])
        THEN [error |-> "DataError: path conflict", record |-> <<>>]
      ELSE [error |-> "",
            record |-> [i \in DOMAIN headers |->
                          [path |-> Assemble(paths, paths[i]), value |-> values[i]]]]

\* the most columns of a file
MaxColumns == 2

\* the headers the files use
HeaderPool ==
  {<<"n", "a", "m", "e">>,
   <<"a", "[", "0", "]">>,
   <<"a", "[", "1", "]">>,
   <<"a", "[", "2", "]">>,
   <<"a", "[", "3", "]">>,
   <<"x">>,
   <<"x", "[", "7", "]">>,
   <<"x", ".", "b">>,
   <<"l", "[", "2", "]">>,
   <<"l", "[", "2", "]", ".", "s", "[", "1", "]">>,
   <<"l", "[", "1", "]", ".", "s", "[", "2", "]">>,
   <<"l", "[", "1", "]", ".", "s", "[", "1", "]">>,
   <<"[", "1", "]">>,
   <<"a", "[">>,
   <<"a", ".", ".", "b">>,
   <<"o", ".", "[", "1", "]">>}

CellPool == {<<"A">>, <<"B">>}

InitCsv ==
  /\ ScriptStart
  /\ PagerIdle
  /\ IdsIdle
  /\ IndexIdle
  /\ NormaliserIdle
  /\ LevelSetIdle
  /\ CoreIdle
  /\ npc = "input"
  /\ nheaders \in {h \in UNION {[1..n -> HeaderPool] : n \in 0..MaxColumns} :
                     \A i, j \in DOMAIN h : i # j => h[i] # h[j]}
  /\ nvalues \in [DOMAIN nheaders -> CellPool]
  /\ nrecord = <<>>
  /\ nerror = ""

\* next(reader)
ReadRow ==
  /\ npc = "input"
  /\ LET res == NestedDict(nheaders, nvalues)
     IN  /\ npc' = IF res.error = "" THEN "built" ELSE "raised"
         /\ nerror' = res.error
         /\ nrecord' = res.record
  /\ UNCHANGED <<nheaders, nvalues>>

NextCsv ==
  \/ ReadRow /\ UNCHANGED exceptCsv

SpecCsv == InitCsv /\ [][NextCsv]_vars

(***************************************************************************)
(* Properties of the reader (checked under SpecCsv).                       *)
(***************************************************************************)
RowRead == npc \in {"built", "raised"}
RowParses == \A i \in DOMAIN nheaders : ParsePath(nheaders[i]).ok
RowPaths == [i \in DOMAIN nheaders |-> ParsePath(nheaders[i]).steps]

\* column i enters a list at step k
EntersList(i, k) == k \in DOMAIN RowPaths[i] /\ IsIdx(RowPaths[i][k])

\* the columns that enter the same list as column i does at step k
SameList(i, k) ==
  {j \in DOMAIN nheaders : /\ EntersList(j, k)
                            /\ SubSeq(RowPaths[j], 1, k - 1) = SubSeq(RowPaths[i], 1, k - 1)}

Max(S) == CHOOSE m \in S : \A n \in S : n <= m
Dense(S) == S = 1..Max(S)

\* some list of the row is not given every index from 1 to its highest
RowHasGap ==
  \E i \in DOMAIN nheaders : \E k \in DOMAIN RowPaths[i] :
    /\ EntersList(i, k)
    /\ ~Dense({RowPaths[j][k].index : j \in SameList(i, k)})

\* one header names as a value what the other names as a container
LeafAndContainer(p, q) == Len(p) < Len(q) /\ SubSeq(q, 1, Len(p)) = p

\* one header goes on with a field where the other goes on with an index
PlainAndIndexed(p, q) ==
  \E k \in 1..Len(p) :
    /\ k <= Len(q)
    /\ SubSeq(p, 1, k - 1) = SubSeq(q, 1, k - 1)
    /\ p[k].index < 0
    /\ q[k].index >= 0

RowHasConflict ==
  \E i, j \in DOMAIN nheaders :
    /\ i # j
    /\ LeafAndContainer(RowPaths[i], RowPaths[j]) \/ PlainAndIndexed(RowPaths[i], RowPaths[j])

C20_ConflictRaises ==
  (RowRead /\ RowParses /\ RowHasConflict) =>
    /\ npc = "raised"
    /\ nerror = "DataError: path conflict"
    /\ nrecord = <<>>

\* headers l[2],l[2].s[1]: reading the row failed
C20_Witness ==
  /\ npc = "raised"
  /\ nheaders = <<<<"l", "[", "2", "]">>, <<"l", "[", "2", "]", ".", "s", "[", "1", "]">>>>
  /\ nerror = "DataError: path conflict"

(***************************************************************************)
(* The fetch loop (checked under SpecDup).                                 *)
(***************************************************************************)
\* every answer of the catalogue so far gave the count N
ConstantCount(N) == \A i \in DOMAIN responses : responses[i].count = N

\* the pages a catalogue of N reports has; one request is made even for none
PagesOf(N) == IF N = 0 THEN 1 ELSE (N + PAGESIZE - 1) \div PAGESIZE

\* C22: with a catalogue of constant count N and no interrupt, the requests
\* made are those for the offsets 0, PAGESIZE, 2*PAGESIZE, ... in this
\* order, each with limit PAGESIZE; every report of a page is in the store
\* before the next page is requested; the scan is over exactly when the
\* pages of N have been requested and all their reports added; and nothing
\* is reported while the loop runs.
C22_PagesInOrderThenReport ==
  \A N \in Counts :
    (ConstantCount(N) /\ ~interrupted) =>
      /\ \A i \in DOMAIN responses :
           /\ responses[i].offset = (i - 1) * PAGESIZE
           /\ responses[i].limit = PAGESIZE
           /\ i < Len(responses) => Range(responses[i].results) \subseteq added
      /\ Len(responses) <= PagesOf(N)
      /\ dpc = "loop" => (reported = {} /\ n_sets = 0 /\ n_dups = 0)
      /\ dpc # "loop" => (Len(responses) = PagesOf(N) /\ Served \subseteq added)

(***************************************************************************)
(* The DomainChecker over a run of calls: queries, constructions of new    *)
(* institutions (as far as they reach the index) and posts.                *)
(***************************************************************************)
\* the most calls of a run
MaxCalls == 4

\* the websites asked for: one the snapshot knows, one it does not, one
\* without a public suffix
IndexWebsites ==
  {U_uni, <<"h", "t", "t", "p", ":", "/", "/", "w", "w", "w", ".", "F", "r", "e", "s", "h", ".", "o", "r", "g", "/">>, U_localhost}

InitIndex ==
  /\ ScriptStart
  /\ PagerIdle
  /\ IdsIdle
  /\ LevelSetIdle
  /\ CoreIdle
  /\ CsvIdle
  /\ NormaliserIdle
  /\ registry = KnownHeis
  /\ created = <<>>
  /\ ilog = <<>>

\* the DomainChecker property (lines 250-301): the checker is constructed,
\* from the institutions the server then holds, when the class has none yet
DomainCheckerOf(d) == IF d = NotBuilt THEN IndexOf(registry) ELSE d

\* self.api.DomainChecker.query(website), lines 288-297, the property
\* included; a website without public suffix raises DataError
IndexQueried(w) ==
  /\ domains' = DomainCheckerOf(domains)
  /\ apiCalls' = IF domains = NotBuilt
                    THEN ApiGet(apiCalls, "/connectapi/v1/institutions")
                    ELSE apiCalls
  /\ IF CoreDomainFails(w)
       THEN UNCHANGED <<domainQueries, domainHits>>
       ELSE /\ domainQueries' = Append(domainQueries, core_domain(w))
            /\ domainHits' = domainHits \cup QueryHits(DomainCheckerOf(domains), w)
  /\ UNCHANGED <<pc, raw, data, name_primary, website, country, institution, error,
                 warnings, nameQueries, headResult, translit_module>>

\* a caller's DomainChecker.query(w)
DomainQuery ==
  /\ Len(ilog) < MaxCalls
  /\ \E w \in IndexWebsites : IndexQueried(w)
  /\ ilog' = Append(ilog, "query")
  /\ UNCHANGED <<registry, created, postResults>>

\* create_institution for a row with website w that resolves to itself:
\* line 343 queries the index; a record results unless the query raised
CreateInstitution ==
  /\ Len(ilog) < MaxCalls
  /\ \E w \in IndexWebsites :
       /\ IndexQueried(w)
       /\ created' = IF CoreDomainFails(w) THEN created ELSE Append(created, w)
  /\ ilog' = Append(ilog, "create")
  /\ UNCHANGED <<registry, postResults>>

\* a post after which the class forgets its DomainChecker
PostInstitutionForgettingIndex ==
  /\ Len(ilog) < MaxCalls
  /\ created # <<>>
  /\ apiCalls' = ApiPost(apiCalls, "/adminapi/v1/institutions/")
  /\ registry' = Append(registry, [deqar_id |-> Len(registry) + 1,
                                    website_link |-> Head(created)])
  /\ postResults' = Append(postResults, [ok |-> TRUE, id |-> Len(registry) + 1])
  /\ created' = Tail(created)
  /\ ilog' = Append(ilog, "post")
  /\ domains' = NotBuilt
  /\ UNCHANGED <<pc, raw, data, name_primary, website, country, institution, error,
                 warnings, domainQueries, domainHits, nameQueries, headResult,
                 translit_module>>

\* post() of the oldest record not yet posted (lines 502-510): the server
\* stores the institution under a new id, or answers with an error status
PostInstitution ==
  /\ Len(ilog) < MaxCalls
  /\ created # <<>>
  /\ apiCalls' = ApiPost(apiCalls, "/adminapi/v1/institutions/")
  /\ \E ok \in BOOLEAN :
       IF ok
         THEN /\ registry' = Append(registry, [deqar_id |-> Len(registry) + 1,
                                               website_link |-> Head(created)])
              /\ postResults' = Append(postResults, [ok |-> TRUE, id |-> Len(registry) + 1])
         ELSE /\ postResults' = Append(postResults, [ok |-> FALSE, id |-> 0])
              /\ UNCHANGED registry
  /\ created' = Tail(created)
  /\ ilog' = Append(ilog, "post")
  /\ UNCHANGED <<pc, raw, data, name_primary, website, country, institution, error,
                 warnings, domains, domainQueries, domainHits, nameQueries, headResult,
                 translit_module>>

NextIndex ==
  \/ DomainQuery /\ UNCHANGED exceptIndex
  \/ CreateInstitution /\ UNCHANGED exceptIndex
  \/ PostInstitution /\ UNCHANGED exceptIndex

SpecIndex == InitIndex /\ [][NextIndex]_vars

(***************************************************************************)
(* Properties of the index (checked under SpecIndex).                      *)
(***************************************************************************)
\* the requests for the snapshot of the institutions
SnapshotRequests ==
  {i \in DOMAIN apiCalls : /\ apiCalls[i].method = "GET"
                            /\ apiCalls[i].path = "/connectapi/v1/institutions"}

\* the ids of the institutions posted during the run
PostedIds == {registry[i].deqar_id : i \in (Len(KnownHeis) + 1)..Len(registry)}

\* C23: the index is built at most once and is, from its first access on,
\* the index of the snapshot taken then, whatever was queried, constructed
\* or posted since; no query returns an institution posted during the run.
C23_IndexBuiltOnceNeverChanged ==
  /\ Cardinality(SnapshotRequests) <= 1
  /\ domains = NotBuilt <=> SnapshotRequests = {}
  /\ domains # NotBuilt => domains = IndexOf(KnownHeis)
  /\ domainHits \cap PostedIds = {}

\* an institution was constructed and posted, and then its website queried
C23_Witness ==
  /\ ilog = <<"create", "post", "query">>
  /\ Len(registry) = Len(KnownHeis) + 1
  /\ Len(domainQueries) = 2
  /\ domainQueries[2] = core_domain(registry[Len(registry)].website_link)
  /\ domainQueries[1] = domainQueries[2]


\* ---------------------------------------------------------------------
\* The level codes of a token, read off its first characters
\* ---------------------------------------------------------------------

\* the reference mapping of one token: the codes it stands for (none or one)
ReferenceCodes(tok) ==
  IF tok = <<>> THEN {}
  ELSE IF tok[1] \in {"5", "6", "7", "8"} THEN {DigitVal(tok[1]) - 5}
  ELSE IF tok[1] \in {"0", "1", "2", "3"} THEN {DigitVal(tok[1])}
  ELSE IF StartsWith(tok, <<"s", "h", "o", "r", "t">>) THEN {0}
  ELSE IF StartsWith(tok, <<"f", "i", "r", "s", "t">>) THEN {1}
  ELSE IF StartsWith(tok, <<"s", "e", "c", "o", "n", "d">>) THEN {2}
  ELSE IF StartsWith(tok, <<"s", "e", "c", "o", "u", "n", "d">>) THEN {2}
  ELSE IF StartsWith(tok, <<"t", "h", "i", "r", "d">>) THEN {3}
  ELSE {}

ReferenceCodesOf(string) ==
  UNION {ReferenceCodes(tok) : tok \in Range(TokensOf(string))}

\* C24: the codes of a set that is built are those the reference mapping
\* gives token by token (leading digit 5-8: the digit less five; leading
\* digit 0-3: the digit; leading keyword: its code; cycle, 4, 9 and any
\* other token: nothing), and every level of the set is an entry of the
\* enumeration the server supplied.
C24_CodesFollowReferenceMapping ==
  lpc = "built" =>
    /\ CodesOfSet(lset) = ReferenceCodesOf(lstring)
    /\ Range(lset) \subseteq Range(qf_levels)

\* '4, EQF 7' gives the second cycle only, '9, 60' the first cycle only
C24_Witness ==
  /\ lpc = "built"
  /\ litems \in {<<<<"4">>, <<"E", "Q", "F", " ", "7">>>>, <<<<"9">>, <<"6", "0">>>>}
  /\ CodesOfSet(lset) = (IF litems[1] = <<"4">> THEN {2} ELSE {1})


\* ---------------------------------------------------------------------
\* The order of the levels in a set
\* ---------------------------------------------------------------------

\* the codes the tokens are recognised as, in the order of their first
\* recognition
RECURSIVE FirstRecognised(_, _)
FirstRecognised(tokens, seen) ==
  IF tokens = <<>> THEN <<>>
  ELSE LET m == TokenMatch(Head(tokens))
       IN  IF m.kind = "level" /\ m.code \notin seen
             THEN <<m.code>> \o FirstRecognised(Tail(tokens), seen \cup {m.code})
             ELSE FirstRecognised(Tail(tokens), seen)

\* C25: a set that is built lists its levels in the order in which their
\* codes were first recognised in the input, and its text shows the numbers
\* in that order.
C25_LevelsInOrderOfFirstRecognition ==
  lpc = "built" =>
    /\ lset = LevelsOf(FirstRecognised(TokensOf(lstring), {}))
    /\ ltext # NotBuilt =>
         ltext = LevelSetStr(LevelsOf(FirstRecognised(TokensOf(lstring), {})))


\* ---------------------------------------------------------------------
\* Several separator characters in a row
\* ---------------------------------------------------------------------

\* the entries all of whose tokens are level tokens or the word cycle
RecognisedItems == {item \in LevelItems : ~HasStrayToken(item)}

\* C26: strict construction from one or more entries that are all
\* recognised succeeds, and gives the set it gives when one comma stands
\* between the entries, however many separator characters the caller puts
\* there.
C26_SeparatorRunsAreOneSeparator ==
  (/\ lpc \in {"built", "raised"}
   /\ lstrict
   /\ litems # <<>>
   /\ Range(litems) \subseteq RecognisedItems) =>
    /\ lpc = "built"
    /\ lset = QfEheaLevelSet(Join(litems, <<",">>), TRUE).levels


\* ---------------------------------------------------------------------
\* The dates of a record
\* ---------------------------------------------------------------------

YearOnly(s) == Len(strip(s)) = 4 /\ isdigit(strip(s))

\* what a record is to hold for a date column: nothing when the column is
\* absent or empty, the year with the default month and day when only a
\* year is given, the trimmed input otherwise
ExpectedDate(col, default) ==
  IF ~Given(col) THEN <<>>
  ELSE IF YearOnly(raw[col]) THEN <<strip(raw[col]) \o default>>
  ELSE <<strip(raw[col])>>

StoredDate(col) == IF col \in DOMAIN institution THEN <<institution[col]>> ELSE <<>>

\* C27: once the dates step has passed, founding_date is the year given
\* with -01-01 and closing_date the year given with -12-31 when only a year
\* was supplied, the trimmed input when a full date was supplied, and not
\* there when the column is absent or empty.
C27_YearOnlyDatesCompleted ==
  (pc \in {"identifier", "parent", "levels", "done"}) =>
    /\ StoredDate("founding_date") = ExpectedDate("founding_date", <<"-", "0", "1", "-", "0", "1">>)
    /\ StoredDate("closing_date") = ExpectedDate("closing_date", <<"-", "1", "2", "-", "3", "1">>)

\* founding_date ' 2000-01-01' and closing_date '1970 ' give 2000-01-01
\* and 1970-12-31
C27_Witness ==
  /\ pc = "done"
  /\ Given("founding_date") /\ Given("closing_date")
  /\ raw["founding_date"] = <<" ", "2", "0", "0", "0", "-", "0", "1", "-", "0", "1">>
  /\ raw["closing_date"] = <<"1", "9", "7", "0", " ">>
  /\ institution["founding_date"] = <<"2", "0", "0", "0", "-", "0", "1", "-", "0", "1">>
  /\ institution["closing_date"] = <<"1", "9", "7", "0", "-", "1", "2", "-", "3", "1">>


\* ---------------------------------------------------------------------
\* Reports served more than once
\* ---------------------------------------------------------------------

\* the ids of the reports passed to add() so far that belong to the agency
\* and have the fingerprint
IdsAdded(agency, h) ==
  {r["id"] : r \in {x \in added : x["agency_acronym"] = agency /\ hash_report(x) = h}}

\* the reports the registry has served so far, each as often as it was served
ServedPages == [p \in 1..Len(responses) |-> responses[p].results]

TimesServed(r) ==
  Cardinality({x \in UNION {{p} \X DOMAIN ServedPages[p] : p \in DOMAIN ServedPages} :
                 ServedPages[x[1]][x[2]] = r})

\* C28: whatever was added and however often, each group of the store holds
\* the distinct ids of the reports added with its agency and fingerprint, no
\* more; a report served twice makes no duplicate set by itself.
C28_AddIsIdempotent ==
  \A e \in Entries(store) : store[e[1]][e[2]] = IdsAdded(e[1], e[2])

\* one report was served by two pages and added both times; its group holds
\* one id and nothing is reported
C28_Witness ==
  /\ dpc = "done"
  /\ ~interrupted
  /\ Len(responses) = 2
  /\ \E r \in added :
       /\ TimesServed(r) = 2
       /\ store[r["agency_acronym"]][hash_report(r)] = {r["id"]}
  /\ reported = {}


(***************************************************************************)
(* addIdentifiers.py : AddIdentifiers                                      *)
(***************************************************************************)

\* the most institutions one page holds
MaxPageHeis == 2

\* line 99
IdsLimit == 25

\* line 132: the resource the records are matched by
IdsKey == <<"E", "r", "a", "s", "m", "u", "s">>

S_SCHAC == <<"S", "C", "H", "A", "C">>
S_PIC == <<"P", "I", "C">>

Pair(resource, identifier) == [resource |-> resource, identifier |-> identifier]

Identifier(agency, resource, identifier) ==
  [agency |-> agency, resource |-> resource, identifier |-> identifier]

\* the JSON files: each entry is a list of (resource, identifier) pairs
IdLists ==
  {<<<<Pair(IdsKey, <<"A", " ">>), Pair(S_SCHAC, <<"a">>)>>>>,
   <<<<Pair(IdsKey, <<"A">>), Pair(S_SCHAC, <<" ", "a">>), Pair(S_SCHAC \o <<" ">>, <<"a">>)>>>>,
   <<<<Pair(IdsKey, <<"A">>), Pair(S_SCHAC, <<"a">>), Pair(S_PIC, <<"1">>)>>,
     <<Pair(S_PIC, <<"2">>)>>>>}

\* the identifiers an institution may have on the server
IdentifierLists ==
  {<<>>,
   <<Identifier(PyNone, IdsKey, <<"A">>)>>,
   <<Identifier(PyNone, IdsKey, <<"A">>), Identifier(PyNone, S_SCHAC, <<"a">>)>>,
   <<Identifier(PyNone, IdsKey, <<"A">>), Identifier(PyNone, S_SCHAC, <<"b">>)>>,
   <<Identifier(<<"5">>, IdsKey, <<"A">>), Identifier(PyNone, IdsKey, <<"Z">>)>>,
   <<Identifier(PyNone, IdsKey, <<"A">>), Identifier(<<"5">>, S_SCHAC, <<"a">>)>>}

\* the counts the server may report
IdsCounts == {0, 2, IdsLimit + 1}

Keeping(s, keep) ==
  LET F[i \in 0..Len(s)] ==
        IF i = 0 THEN <<>>
        ELSE IF s[i] \in keep THEN Append(F[i - 1], s[i]) ELSE F[i - 1]
  IN  F[Len(s)]

\* lines 27-32: the entries that have the key, indexed by its value, each
\* without the key itself
RECURSIVE AdditionalIdsOf(_, _)
AdditionalIdsOf(id_list, key) ==
  IF id_list = <<>> THEN EmptyDict
  ELSE LET i == id_list[Len(id_list)]
           rest == AdditionalIdsOf(Take(id_list, Len(id_list) - 1), key)
           keyed == {k \in DOMAIN i : i[k].resource = key}
       IN  IF keyed = {} THEN rest
           ELSE Put(rest, strip(i[CHOOSE k \in keyed : TRUE].identifier),
                    Keeping(i, {p \in Range(i) : p.resource # key}))

\* lines 49-59: the value of the first identifier without agency whose
\* resource is the key, if the additional ids have it
ThisKey(identifiers, additional, key) ==
  LET own == {k \in DOMAIN identifiers :
                identifiers[k].agency = PyNone /\ identifiers[k].resource = key}
      first == CHOOSE k \in own : \A j \in own : k <= j
  IN  IF own # {} /\ identifiers[first].identifier \in DOMAIN additional
        THEN identifiers[first].identifier
        ELSE PyNone

\* lines 67-73: the loop over the existing identifiers ends in break
AlreadyPresent(identifiers, resource, identifier) ==
  \E k \in DOMAIN identifiers :
    /\ identifiers[k].agency = PyNone
    /\ identifiers[k].resource = resource
    /\ identifiers[k].identifier = identifier

\* lines 64-86: the items of the entry are added one after the other
\* (identifier_valid_from and note of the new identifier are left out)
RECURSIVE AddItems(_, _)
AddItems(identifiers, items) ==
  IF items = <<>> THEN identifiers
  ELSE LET resource == strip(Head(items).resource)
           identifier == strip(Head(items).identifier)
       IN  AddItems(IF AlreadyPresent(identifiers, resource, identifier)
                      THEN identifiers
                      ELSE Append(identifiers, Identifier(PyNone, resource, identifier)),
                    Tail(items))

\* lines 46-86 for one institution: hei.data['identifiers'] afterwards
WithAdditionalIds(identifiers, additional, key) ==
  LET this_key == ThisKey(identifiers, additional, key)
  IN  IF Truthy(this_key) THEN AddItems(identifiers, additional[this_key])
      ELSE identifiers


InitIds ==
  /\ ScriptStart
  /\ PagerIdle
  /\ NormaliserIdle
  /\ LevelSetIdle
  /\ CoreIdle
  /\ CsvIdle
  /\ IndexIdle
  /\ apc = "loop"
  /\ acommit \in BOOLEAN
  /\ additionalIds \in {AdditionalIdsOf(l, IdsKey) : l \in IdLists}
  /\ aoffset = 0
  /\ acount = 1
  /\ apage = 0
  /\ apending = <<>>
  /\ heiDb \in [1..2 -> IdentifierLists]
  /\ puts = <<>>
  /\ astep = <<>>

\* lines 103-104 and 36: the loop condition holds and _run_step fetches a page
RunStep ==
  /\ apc = "loop"
  /\ aoffset < acount
  /\ \E count \in IdsCounts,
        results \in UNION {[1..n -> DOMAIN heiDb] : n \in 0..MaxPageHeis} :
       /\ apage' = count
       /\ apending' = results
  /\ apc' = "step"
  /\ UNCHANGED <<acommit, additionalIds, aoffset, acount, heiDb, puts, astep>>

\* line 36 or 40: a request fails; the exception _request raises for the
\* page ends the run, the one for an institution is skipped where it is an
\* HttpError and ends the run where it is not
RequestFails ==
  /\ \/ apc = "loop" /\ aoffset < acount /\ apc' = "crashed" /\ UNCHANGED apending
     \/ /\ apc = "step"
        /\ apending # <<>>
        /\ \/ apc' = "crashed" /\ UNCHANGED apending
           \/ apending' = Tail(apending) /\ UNCHANGED apc
  /\ UNCHANGED <<acommit, additionalIds, aoffset, acount, apage, heiDb, puts, astep>>

\* the PUT of save(), as the server answers it
SaveInstitutionUnconditionally(id, loaded, identifiers, accepted) ==
  /\ puts' = Append(puts, [id |-> id, loaded |-> loaded, identifiers |-> identifiers])
  /\ heiDb' = IF accepted THEN [heiDb EXCEPT ![id] = identifiers] ELSE heiDb
  /\ apc' = IF accepted THEN apc ELSE "crashed"

\* lines 92-93 and Institution.save: the PUT is sent when something was
\* added and commit is set; a PUT the server refuses ends the run (the log
\* keeps, next to each PUT, the identifiers that had been loaded)
SaveInstitution(id, loaded, identifiers, accepted) ==
  IF Len(identifiers) > Len(loaded) /\ acommit
    THEN /\ puts' = Append(puts, [id |-> id, loaded |-> loaded, identifiers |-> identifiers])
         /\ heiDb' = IF accepted THEN [heiDb EXCEPT ![id] = identifiers] ELSE heiDb
         /\ apc' = IF accepted THEN apc ELSE "crashed"
    ELSE UNCHANGED <<puts, heiDb, apc>>

\* lines 38-93 for the next institution of the page, loaded from the server
ProcessInstitution ==
  /\ apc = "step"
  /\ apending # <<>>
  /\ LET id == Head(apending)
         loaded == heiDb[id]
         after == WithAdditionalIds(loaded, additionalIds, IdsKey)
     IN  /\ astep' = <<[id |-> id, before |-> loaded, after |-> after]>>
         /\ \E accepted \in BOOLEAN :
              SaveInstitution(id, loaded, after, accepted)
  /\ apending' = Tail(apending)
  /\ UNCHANGED <<acommit, additionalIds, aoffset, acount, apage>>

\* lines 95, 104-105: _run_step returns the count of the page
StepReturn ==
  /\ apc = "step"
  /\ apending = <<>>
  /\ acount' = apage
  /\ aoffset' = aoffset + IdsLimit
  /\ apc' = "loop"
  /\ UNCHANGED <<acommit, additionalIds, apage, apending, heiDb, puts, astep>>

\* line 103: the loop condition fails
RunExit ==
  /\ apc = "loop"
  /\ ~(aoffset < acount)
  /\ apc' = "done"
  /\ UNCHANGED <<acommit, additionalIds, aoffset, acount, apage, apending, heiDb, puts, astep>>

\* lines 134-137: Ctrl-C ends the run
IdsInterrupt ==
  /\ apc \in {"loop", "step"}
  /\ apc' = "done"
  /\ UNCHANGED <<acommit, additionalIds, aoffset, acount, apage, apending, heiDb, puts, astep>>

NextIds ==
  \/ RunStep /\ UNCHANGED exceptIds
  \/ RequestFails /\ UNCHANGED exceptIds
  \/ ProcessInstitution /\ UNCHANGED exceptIds
  \/ StepReturn /\ UNCHANGED exceptIds
  \/ RunExit /\ UNCHANGED exceptIds
  \/ IdsInterrupt /\ UNCHANGED exceptIds

SpecIds == InitIds /\ [][NextIds]_vars

\* C29: a dry run sends no PUT; every PUT carries more identifiers than the
\* institution had on the server when it was loaded; and each identifier a
\* step appended has no identifier without agency before it in the list
\* with the same resource and the same value.
C29_SavedOnlyWhenIdentifierAdded ==
  /\ ~acommit => puts = <<>>
  /\ \A p \in DOMAIN puts :
       /\ Len(puts[p].identifiers) > Len(puts[p].loaded)
       /\ Take(puts[p].identifiers, Len(puts[p].loaded)) = puts[p].loaded
  /\ astep # <<>> =>
       /\ Take(astep[1].after, Len(astep[1].before)) = astep[1].before
       /\ \A k \in (Len(astep[1].before) + 1)..Len(astep[1].after) :
            /\ astep[1].after[k].agency = PyNone
            /\ ~\E j \in 1..(k - 1) :
                  /\ astep[1].after[j].agency = PyNone
                  /\ astep[1].after[j].resource = astep[1].after[k].resource
                  /\ astep[1].after[j].identifier = astep[1].after[k].identifier

\* in a dry run the same institution was served twice and got its SCHAC
\* identifier both times, nothing being saved
C29_WitnessDryRun ==
  /\ ~acommit
  /\ apc = "done"
  /\ aoffset = 2 * IdsLimit
  /\ astep # <<>>
  /\ Len(astep[1].after) = Len(astep[1].before) + 1
  /\ heiDb[astep[1].id] = astep[1].before

\* with commit an institution was saved with its new identifier, and when
\* it was served again nothing was added and nothing saved
C29_Witness ==
  /\ acommit
  /\ apc = "done"
  /\ Len(puts) = 1
  /\ astep # <<>>
  /\ astep[1].id = puts[1].id
  /\ astep[1].before = puts[1].identifiers
  /\ astep[1].after = astep[1].before
  /\ Len(puts[1].identifiers) = Len(puts[1].loaded) + 2


(***************************************************************************)
(* deqar-cli.py : paginate_heis                                            *)
(***************************************************************************)

\* the largest number typed at the prompt
MaxChoice == 21

\* line 54
PagerLimit == 20

\* lines 82-86: the step of Previous, Next and Last
PagerStep == 20

\* the numbers of institutions a query may match
PagerCounts == {0, 1, 19, 20, 21, 25, 45}

PagerMin(a, b) == IF a < b THEN a ELSE b
PagerMax(a, b) == IF a > b THEN a ELSE b

\* what is typed at the prompt
PagerInputs ==
  {IntStr(n) : n \in 0..MaxChoice}
    \cup {<<>>, <<"F">>, <<"f">>, <<"P">>, <<"N">>, <<"n", "e", "x", "t">>, <<"L">>,
          <<"Q">>, <<"q">>, <<"x">>, <<"-", "1">>}

\* get_institutions(query, limit, offset) on a server holding `matches`
\* matching institutions: the rows offset+1 .. offset+limit of them, each with its id
PagerResponse(matches, limit, off) ==
  [count |-> matches,
   results |-> [k \in 1..PagerMax(0, PagerMin(limit, matches - off)) |->
                  [id |-> IntStr(off + k)]]]

\* lines 57-59: the page is requested when the offset has changed
PagerFetched ==
  IF poffset # last_offset
    THEN <<PagerResponse(ptotal, PagerLimit, poffset)>>
    ELSE presult

\* lines 79-86: the offset after First, Previous, Next or Last
PagerOffsetAfter(choice, off, count) ==
  CASE choice = "F" -> 0
    [] choice = "P" -> PagerMax(0, off - PagerStep)
    [] choice = "N" -> IF off < count - PagerStep THEN off + PagerStep ELSE off
    [] choice = "L" -> PagerMax(0, count - PagerStep)
    [] OTHER -> off

InitPager ==
  /\ ScriptStart
  /\ NormaliserIdle
  /\ LevelSetIdle
  /\ CoreIdle
  /\ CsvIdle
  /\ IndexIdle
  /\ IdsIdle
  /\ ppc = "prompt"
  /\ ptotal \in PagerCounts
  /\ poffset = 0
  /\ last_offset = -1
  /\ presult = <<>>
  /\ pchoice = <<>>
  /\ pshown = <<>>

\* lines 57-60, 91-93: the query has no results
NoResults ==
  /\ ppc = "prompt"
  /\ ~(PagerFetched[1].count > 0)
  /\ presult' = PagerFetched
  /\ last_offset' = poffset
  /\ ppc' = "returned"
  /\ UNCHANGED <<ptotal, poffset, pchoice, pshown>>

\* lines 57-74: a number is typed; results[n] of a page that has no such
\* row raises IndexError, which paginate_heis does not catch
ChooseRow ==
  /\ ppc = "prompt"
  /\ PagerFetched[1].count > 0
  /\ \E navigate \in {s \in PagerInputs : isdigit(s)} :
       LET count == PagerFetched[1].count
           results == PagerFetched[1].results
           n == int(navigate)
       IN  IF 0 <= n /\ n < PagerMin(PagerLimit, count)
             THEN /\ pchoice' = <<n>>
                  /\ IF n + 1 \in DOMAIN results
                       THEN pshown' = <<int(results[n + 1].id)>> /\ UNCHANGED ppc
                       ELSE pshown' = <<>> /\ ppc' = "crashed"
             ELSE pchoice' = <<>> /\ pshown' = <<>> /\ UNCHANGED ppc
  /\ presult' = PagerFetched
  /\ last_offset' = poffset
  /\ UNCHANGED <<ptotal, poffset>>

\* lines 57-69, 77-86: First, Previous, Next or Last
Navigate ==
  /\ ppc = "prompt"
  /\ PagerFetched[1].count > 0
  /\ \E navigate \in {s \in PagerInputs : s # <<>> /\ upperChar(s[1]) \in {"F", "P", "N", "L"}} :
       poffset' = PagerOffsetAfter(upperChar(navigate[1]), poffset, PagerFetched[1].count)
  /\ presult' = PagerFetched
  /\ last_offset' = poffset
  /\ pchoice' = <<>>
  /\ pshown' = <<>>
  /\ UNCHANGED <<ppc, ptotal>>

\* lines 75-77: an empty line, or anything that is no number and no command
IgnoredInput ==
  /\ ppc = "prompt"
  /\ PagerFetched[1].count > 0
  /\ \E navigate \in PagerInputs :
       /\ ~isdigit(navigate)
       /\ IF navigate = <<>> THEN TRUE
          ELSE upperChar(navigate[1]) \notin {"F", "P", "N", "L", "Q"}
  /\ presult' = PagerFetched
  /\ last_offset' = poffset
  /\ pchoice' = <<>>
  /\ pshown' = <<>>
  /\ UNCHANGED <<ppc, ptotal, poffset>>

\* lines 87-88 and 94-95: Quit, Ctrl-C or end of input at the prompt
QuitPager ==
  /\ ppc = "prompt"
  /\ PagerFetched[1].count > 0
  /\ presult' = PagerFetched
  /\ last_offset' = poffset
  /\ ppc' = "returned"
  /\ UNCHANGED <<ptotal, poffset, pchoice, pshown>>

NextPager ==
  \/ NoResults /\ UNCHANGED exceptPager
  \/ ChooseRow /\ UNCHANGED exceptPager
  \/ Navigate /\ UNCHANGED exceptPager
  \/ IgnoredInput /\ UNCHANGED exceptPager
  \/ QuitPager /\ UNCHANGED exceptPager

SpecPager == InitPager /\ [][NextPager]_vars

\* C30: while the pager shows a page, the offset is at least 0 and below
\* the count, and a number accepted at the prompt is the number of a row of
\* the page on display, whose institution is shown, also on a last page
\* with fewer rows than the limit.
C30_OffsetInRangeChoiceOnPage ==
  (presult # <<>> /\ presult[1].count > 0) =>
    /\ 0 <= poffset
    /\ poffset < presult[1].count
    /\ pchoice # <<>> =>
         /\ pchoice[1] + 1 \in DOMAIN presult[1].results
         /\ pshown = <<int(presult[1].results[pchoice[1] + 1].id)>>

====
